---- MODULE Spec2Model ----
(***************************************************************************)
(* Hierarchical MPC energy management for a hybrid energy storage system.  *)
(*                                                                         *)
(* Three optimizer revisions live in the repository and are modelled side  *)
(* by side; a "variant" names the file an operation is taken from:         *)
(*   "determined"  src/Hierarchical_determined_MPC/mpc_ems_hierarchical.py *)
(*   "stochastic"  src/Hierarchical_stochastic_MPC/mpc_ems_stochastic.py   *)
(*   "linearized"  src/mpc_ems_hierarchical.py (V1.8, slack variables)     *)
(* and two drivers:                                                        *)
(*   "hier"   src/main_simulation_hierarchical.py                          *)
(*   "stoch"  src/Hierarchical_stochastic_MPC/main_simulation_stochastic.py*)
(*                                                                         *)
(* Specifications:                                                         *)
(*   SpecFallback  solve_with_fallback, one solver attempt per step        *)
(*   SpecOpt       one optimizer call at a time: an upper-layer solve or a *)
(*                 lower-layer solve of any revision                       *)
(*   SpecLoop      the simulation loop of a driver, one stage of a lower   *)
(*                 step per action                                         *)
(*   SpecPlant     one storage unit (flywheel, electrochemical, CAES)      *)
(*                 under a sequence of update_state commands               *)
(*   SpecGroups    the asset groups built by the EMS constructor           *)
(*   SpecScenarios generate_scenarios                                      *)
(*   SpecDecompose decompose_power_signal of either driver                 *)
(*   SpecHess      the unit registry HybridEnergyStorageSystem under       *)
(*                 add_unit and update_all_states calls                    *)
(***************************************************************************)
EXTENDS Integers, Sequences, FiniteSets, TLC

VARIABLES
    fb_variant,     \* which revision's solve_with_fallback is running
    fb_is_mip,      \* the is_mip argument (linearized revision only)
    fb_pc,          \* "idle" | "primary" | "secondary" | "returned" | "raised"
    fb_status,      \* problem.status as left by the last attempt that set it
    fb_primary,     \* what the primary attempt did ("none" before it)
    fb_secondary,   \* what the secondary attempt did ("none" if not attempted)
    fb_order,       \* the solvers attempted so far, in order
    fb_ret,         \* "none" | "true" | "false"
    fb_exc          \* the exception that left the call ("none" if none)

fbVars == <<fb_variant, fb_is_mip, fb_pc, fb_status, fb_primary, fb_secondary,
            fb_order, fb_ret, fb_exc>>

VARIABLES
    op_pc,          \* "idle" | "upper" | "lower_mid" | "lower_high" | "lower_fast"
                    \* | "returned" | "raised"
    op_variant,     \* the revision whose optimizer is running
    op_call,        \* "none" | "upper" | "lower"
    op_units,       \* ids registered in hess.all_units
    op_soc,         \* current_soc: id -> SOC read before the solve
    op_sig,         \* the signals handed to the call (see OpCallUpper, OpCallLower)
    op_ok,          \* sub-problem -> what solve_with_fallback did ("true"/"false")
    op_plan,        \* sub-problem -> values the cvxpy variables hold after the solve
    op_grid,        \* grid_exchange values after an upper solve (<<>> if none)
    res_kind,       \* "none" | "dict" | "None": what the call returned
    res_status,     \* the "status" entry of the returned dict ("absent" if none)
    res_dispatch,   \* the returned id -> command / id -> plan mapping
    res_grid,       \* the returned "grid_exchange" (<<>> if the dict has none)
    res_ref         \* the returned "fast_asset_net_power_ref" (<<>> if none)

opVars == <<op_pc, op_variant, op_call, op_units, op_soc, op_sig, op_ok, op_plan,
            op_grid, res_kind, res_status, res_dispatch, res_grid, res_ref>>

\* the simulation loop of a driver script
VARIABLES driver, dt_lower, dt_upper, k_lower, lp_pc, lp_crash,
          slow_asset_dispatch_plan_upper, planned_slow_dispatch,
          current_dispatch, n_upper, n_decompose, n_lower

\* the loop's view of the storage units
VARIABLES
    hess_state,     \* the state of the units: how many update_all_states acted
    current_soc,    \* the map read by get_all_soc in this iteration (<<>> before)
    soc_given,      \* the SOC maps handed to the solves of this iteration, in order
    n_soc_read      \* get_all_soc calls of this iteration

loopVars == <<driver, dt_lower, dt_upper, k_lower, lp_pc, lp_crash,
              slow_asset_dispatch_plan_upper, planned_slow_dispatch,
              current_dispatch, n_upper, n_decompose, n_lower,
              hess_state, current_soc, soc_given, n_soc_read>>

\* one storage unit (a plant model object)
VARIABLES
    pl_kind,        \* "none" | "fw" | "ees" | "caes": the class of the unit
    pl_state,       \* self.state: "idle" | "charging" | "discharging"
    pl_x,           \* the stored quantity: omega (fw), E_ees_mwh (ees), M_air_kg (caes)
    pl_soh,         \* self.soh, in percent
    pl_cycle,       \* [min, max]: last_cycle_soc_min / last_cycle_soc_max, in percent
    pl_cmd,         \* <<p>> after update_state(p); <<>> before the first call
    pl_pelec,       \* the power left of that command after the available-power limit
    pl_soh_runs,    \* how often _update_soh ran in that update_state
    pl_cycle_open   \* an accepted discharge has no accepted charge after it yet

plantVars == <<pl_kind, pl_state, pl_x, pl_soh, pl_cycle, pl_cmd, pl_pelec,
               pl_soh_runs, pl_cycle_open>>

\* one evaluation of a function of the repository that keeps no state
VARIABLES
    pf_name,        \* the function evaluated ("none" if none)
    pf_arg,         \* its arguments
    pf_pc,          \* "off" | "called" | "returned" | "raised"
    pf_res          \* what it returned (<<>> before the return)

pfVars == <<pf_name, pf_arg, pf_pc, pf_res>>

\* a HybridEnergyStorageSystem under calls of its methods
VARIABLES
    all_units,      \* self.all_units: the registered units in insertion order
    hs_call,        \* the last method call: its name and argument (<<>> if none)
    hs_exc,         \* what the last call raised ("none" if it returned)
    hs_updates      \* the update_state calls the last call made, in order

hessVars == <<all_units, hs_call, hs_exc, hs_updates>>

vars == <<fbVars, opVars, loopVars, plantVars, pfVars, hessVars>>

\* no optimizer call in progress, nothing returned yet
OpIdle ==
    /\ op_pc = "idle"
    /\ op_variant = "determined"
    /\ op_call = "none"
    /\ op_units = {}
    /\ op_soc = <<>>
    /\ op_sig = <<>>
    /\ op_ok = <<>>
    /\ op_plan = <<>>
    /\ op_grid = <<>>
    /\ res_kind = "none"
    /\ res_status = "absent"
    /\ res_dispatch = <<>>
    /\ res_grid = <<>>
    /\ res_ref = <<>>

\* no driver script running
LoopIdle ==
    /\ driver = "none"
    /\ dt_lower = 1
    /\ dt_upper = 1
    /\ k_lower = 0
    /\ lp_pc = "off"
    /\ lp_crash = "none"
    /\ slow_asset_dispatch_plan_upper = <<>>
    /\ planned_slow_dispatch = <<>>
    /\ current_dispatch = <<>>
    /\ n_upper = 0
    /\ n_decompose = 0
    /\ n_lower = 0
    /\ hess_state = 0
    /\ current_soc = <<>>
    /\ soc_given = <<>>
    /\ n_soc_read = 0

\* no storage unit constructed
PlantIdle ==
    /\ pl_kind = "none"
    /\ pl_state = "idle"
    /\ pl_x = 0
    /\ pl_soh = 100
    /\ pl_cycle = <<>>
    /\ pl_cmd = <<>>
    /\ pl_pelec = 0
    /\ pl_soh_runs = 0
    /\ pl_cycle_open = FALSE

\* no function under evaluation
PfIdle ==
    /\ pf_name = "none"
    /\ pf_arg = <<>>
    /\ pf_pc = "off"
    /\ pf_res = <<>>

\* HybridEnergyStorageSystem.__init__: no unit registered, no call made yet
HessInit ==
    /\ all_units = <<>>
    /\ hs_call = <<>>
    /\ hs_exc = "none"
    /\ hs_updates = <<>>

----------------------------------------------------------------------------
(* Solver behaviour: problem.solve either raises or returns with a status. *)

Variants == {"determined", "stochastic", "linearized"}

\* cvxpy statuses a solve can leave in problem.status
OptimalStatuses == {"optimal", "optimal_inaccurate"}
Statuses == OptimalStatuses \cup {"infeasible", "unbounded", "user_limit"}

\* exception classes a solve can raise; TypeError stands for every class
\* that none of the handlers names
ExcTypes == {"SolverError", "ImportError", "AttributeError", "ValueError", "TypeError"}

Outcomes == Statuses \cup ExcTypes

----------------------------------------------------------------------------
(* solve_with_fallback                                                     *)

\* the status test guarding every `return True`
StatusAcceptedAny(status) == status \in Statuses
StatusAccepted(status) == status \in OptimalStatuses

\* the except clause around the primary (GUROBI) attempt
PrimaryHandlerCatches(v, exc) ==
    IF v = "linearized"
    THEN exc \in {"SolverError", "ValueError"}
    ELSE exc \in {"SolverError", "ImportError", "AttributeError"}

\* the except clause around the secondary attempt
SecondaryHandlerCatches(v, exc) ==
    IF v = "linearized"
    THEN TRUE                       \* except Exception
    ELSE exc = "SolverError"

\* the solver the secondary attempt names
SecondarySolver(v, is_mip) ==
    IF v = "linearized" THEN (IF is_mip THEN "CBC" ELSE "default") ELSE "ECOS"

FbCall ==
    /\ fb_pc = "idle"
    /\ \E v \in Variants, mip \in BOOLEAN :
        /\ (v # "linearized" => mip = FALSE)
        /\ fb_variant' = v
        /\ fb_is_mip' = mip
    /\ fb_pc' = "primary"
    /\ fb_status' = "none"
    /\ fb_primary' = "none"
    /\ fb_secondary' = "none"
    /\ fb_order' = <<>>
    /\ fb_ret' = "none"
    /\ fb_exc' = "none"

\* problem.solve(solver=GUROBI) and the code up to the next solve or exit
FbPrimary ==
    /\ fb_pc = "primary"
    /\ \E o \in Outcomes :
        /\ fb_primary' = o
        /\ fb_order' = Append(fb_order, "GUROBI")
        /\ IF o \in Statuses
           THEN /\ fb_status' = o
                /\ IF StatusAccepted(o)
                   THEN fb_pc' = "returned" /\ fb_ret' = "true" /\ fb_exc' = "none"
                   \* determined/stochastic raise SolverError here, which their own
                   \* handler catches; linearized falls out of the try block
                   ELSE fb_pc' = "secondary" /\ fb_ret' = "none" /\ fb_exc' = "none"
           ELSE /\ fb_status' = fb_status
                /\ IF PrimaryHandlerCatches(fb_variant, o)
                   THEN fb_pc' = "secondary" /\ fb_ret' = "none" /\ fb_exc' = "none"
                   ELSE fb_pc' = "raised" /\ fb_ret' = "none" /\ fb_exc' = o
    /\ UNCHANGED <<fb_variant, fb_is_mip, fb_secondary>>

\* the secondary problem.solve and the code up to the exit
FbSecondary ==
    /\ fb_pc = "secondary"
    /\ \E o \in Outcomes :
        /\ fb_secondary' = o
        /\ fb_order' = Append(fb_order, SecondarySolver(fb_variant, fb_is_mip))
        /\ IF o \in Statuses
           THEN /\ fb_status' = o
                /\ fb_pc' = "returned"
                /\ fb_exc' = "none"
                /\ fb_ret' = IF StatusAccepted(o) THEN "true" ELSE "false"
           ELSE /\ fb_status' = fb_status
                /\ IF SecondaryHandlerCatches(fb_variant, o)
                   THEN fb_pc' = "returned" /\ fb_ret' = "false" /\ fb_exc' = "none"
                   ELSE fb_pc' = "raised" /\ fb_ret' = "none" /\ fb_exc' = o
    /\ UNCHANGED <<fb_variant, fb_is_mip, fb_primary>>

\* the caller is done with the result; the wrapper is ready for the next problem
FbDone ==
    /\ fb_pc \in {"returned", "raised"}
    /\ fb_pc' = "idle"
    /\ UNCHANGED <<fb_variant, fb_is_mip, fb_status, fb_primary, fb_secondary,
                   fb_order, fb_ret, fb_exc>>

FbInit ==
    /\ fb_variant = "determined"
    /\ fb_is_mip = FALSE
    /\ fb_pc = "idle"
    /\ fb_status = "none"
    /\ fb_primary = "none"
    /\ fb_secondary = "none"
    /\ fb_order = <<>>
    /\ fb_ret = "none"
    /\ fb_exc = "none"

FbNext ==
    \/ FbCall /\ UNCHANGED <<opVars, loopVars, plantVars, pfVars, hessVars>>
    \/ FbPrimary /\ UNCHANGED <<opVars, loopVars, plantVars, pfVars, hessVars>>
    \/ FbSecondary /\ UNCHANGED <<opVars, loopVars, plantVars, pfVars, hessVars>>
    \/ FbDone /\ UNCHANGED <<opVars, loopVars, plantVars, pfVars, hessVars>>

\* an optimizer object whose solve_with_fallback is exercised on its own
InitFallback == FbInit /\ OpIdle /\ LoopIdle /\ PlantIdle /\ PfIdle /\ HessInit

SpecFallback == InitFallback /\ [][FbNext]_vars

\* The whole call as a function of what the two attempts do:
\* "true", "false", or "raise".
FallbackResult(v, o1, o2) ==
    IF o1 \in Statuses /\ StatusAccepted(o1) THEN "true"
    ELSE IF o1 \in ExcTypes /\ ~PrimaryHandlerCatches(v, o1) THEN "raise"
    ELSE IF o2 \in Statuses THEN (IF StatusAccepted(o2) THEN "true" ELSE "false")
    ELSE IF SecondaryHandlerCatches(v, o2) THEN "false"
    ELSE "raise"

----------------------------------------------------------------------------
(* Claims about solve_with_fallback                                        *)

FbExited == fb_pc \in {"returned", "raised"}

\* C1: solve_with_fallback never raises: whatever the two solvers do
\* (raise any exception, return any status), the call returns a boolean.
C1_NeverRaises ==
    FbExited => (fb_pc = "returned" /\ fb_ret \in {"true", "false"})

\* C4: solve_with_fallback returns true only when the status left by the
\* last solve attempt is optimal or optimal_inaccurate.
C4_TrueOnlyWhenOptimal ==
    (fb_pc = "returned" /\ fb_ret = "true") => fb_status \in OptimalStatuses

\* a call that tried both solvers and returned true on the second
C4_Witness ==
    /\ fb_pc = "returned" /\ fb_ret = "true"
    /\ fb_primary = "infeasible" /\ fb_secondary = "optimal_inaccurate"

\* C5: the primary solver is attempted first and exactly once; the secondary
\* is attempted (once) iff the primary raised or ended non-optimal.
C5_AttemptOrder ==
    FbExited =>
        /\ Len(fb_order) >= 1 /\ fb_order[1] = "GUROBI"
        /\ Len(fb_order) <= 2
        /\ (Len(fb_order) = 2) <=> (fb_primary \notin OptimalStatuses)
        /\ (Len(fb_order) = 2 => fb_order[2] # "GUROBI")

----------------------------------------------------------------------------
(* Assets and their grouping                                               *)
(*                                                                         *)
(* Powers are integers (one unit = 1 MW); AC-side powers, signals and      *)
(* returned commands are in hundredths of a unit, so that x * efficiency   *)
(* and x / efficiency stay integers.  SOC is in integer steps; one unit of *)
(* DC power over one timestep moves the SOC by one step (dt_h/capacity_mwh *)
(* = 1 step per unit).                                                     *)

\* the ids the drivers register with hess.add_unit
DriverIds == {"fw", "sc", "smes", "ees", "phs", "hes", "tes", "caes"}

\* `keyword in u.id`: the keywords that are substrings of an id.  Every driver
\* id is itself a keyword and no keyword is a substring of another.
IdKeywords(id) == {kw \in DriverIds : kw = id}

IdHasAny(id, kws) == IdKeywords(id) \cap kws # {}

energy_assets(units) == {u \in units : IdHasAny(u, {"phs", "hes", "tes", "caes"})}
smoothing_assets(units) == {u \in units : IdHasAny(u, {"ees"})}
power_assets(units) == {u \in units : IdHasAny(u, {"fw", "sc", "smes"})}
\* the linearized revision has two groups
slow_assets(units) == {u \in units : IdHasAny(u, {"phs", "hes", "tes", "caes"})}
fast_assets(units) == {u \in units : IdHasAny(u, {"fw", "sc", "smes", "ees"})}

\* the registries the model runs with
Registries == {{"ees", "fw", "phs"}, {"fw", "sc", "hes"}}

\* unit.efficiency, in percent
EffPct(u) == IF u \in {"ees", "phs"} THEN 50 ELSE 100
\* unit.power_m_w
PowerMW(u) == IF u \in {"ees", "phs"} THEN 2 ELSE 1
\* unit.soc_min, unit.soc_max in SOC steps
SocMin == 1
SocMax == 3

\* prediction horizons
PH_upper == 2
PH_lower == 2

Zeros(n) == [t \in 1..n |-> 0]

\* p_discharge * unit.efficiency - p_charge / unit.efficiency, in hundredths
DispatchAC(u, ch, dis) == dis * EffPct(u) - ch * (10000 \div EffPct(u))

\* discharge_power - charge_power (linearized revision), in hundredths
DispatchNet(u, ch, dis) == 100 * (dis - ch)

----------------------------------------------------------------------------
(* Constraint sets of the optimization problems                            *)

\* determined/stochastic, and the linearized lower layer:
\*   soc[t+1] == soc[t] + (p_charge[t] - p_discharge[t]) * dt_h / capacity_mwh
\* linearized upper layer (slow assets): a technology-specific recursion with
\* separate conversion factors for charging and discharging (eta_pump and
\* 1/eta_gen for PHS, 1/eta_ely and 1/(33.3*eta_fc) for HES); on the integer
\* grid a unit discharged costs twice the SOC a unit charged adds.
NextSoc(v, u, s, ch, dis) ==
    IF v = "linearized" /\ IdHasAny(u, {"phs", "hes", "tes", "caes"})
    THEN s + ch - 2 * dis
    ELSE s + (ch - dis)

\* nonneg=True, p_discharge * efficiency <= power_m_w,
\* p_charge <= power_m_w * efficiency
ChargeChoices(u) == {c \in 0..PowerMW(u) : 100 * c <= PowerMW(u) * EffPct(u)}
DischargeChoices(u) == {d \in 0..(2 * PowerMW(u)) : d * EffPct(u) <= 100 * PowerMW(u)}

\* linearized revision: charge_power <= rated power, discharge_power <= rated
\* power (no efficiency factor); u_charge + u_discharge <= 1 for HES and CAES
LinStepChoices(u) ==
    {cd \in (0..PowerMW(u)) \X (0..PowerMW(u)) :
        IdHasAny(u, {"hes", "caes"}) => (cd[1] = 0 \/ cd[2] = 0)}
StepChoices(v, u) ==
    IF v = "linearized" THEN LinStepChoices(u)
    ELSE ChargeChoices(u) \X DischargeChoices(u)

\* soc >= unit.soc_min, soc <= unit.soc_max.  The linearized revision
\* subtracts/adds a free nonnegative slack variable on each side, which
\* leaves soc itself unconstrained.
SocBoxDropped(v, s) == TRUE
SocBox(v, s) == v = "linearized" \/ (SocMin <= s /\ s <= SocMax)

\* the slack the linearized constraints force at SOC s
SlackMin(s) == IF s < SocMin THEN SocMin - s ELSE 0
SlackMax(s) == IF s > SocMax THEN s - SocMax ELSE 0

\* All value assignments of one asset's variables (charge, discharge, soc)
\* over n steps that satisfy its constraints, soc[0] pinned to s.
RECURSIVE AssetPlans(_, _, _, _)
AssetPlans(v, u, s, n) ==
    IF ~SocBox(v, s) THEN {}
    ELSE IF n = 0 THEN {[ch |-> <<>>, dis |-> <<>>, soc |-> <<s>>]}
    ELSE UNION { { [ch |-> <<cd[1]>> \o p.ch, dis |-> <<cd[2]>> \o p.dis,
                    soc |-> <<s>> \o p.soc] :
                     p \in AssetPlans(v, u, NextSoc(v, u, s, cd[1], cd[2]), n - 1) } :
                 cd \in StepChoices(v, u) }

\* One plan per asset of a group.
RECURSIVE GroupPlans(_, _, _, _)
GroupPlans(v, G, soc, n) ==
    IF G = {} THEN {<<>>}
    ELSE LET u == CHOOSE x \in G : TRUE
         IN  { (u :> p) @@ f : p \in AssetPlans(v, u, soc[u], n),
                               f \in GroupPlans(v, G \ {u}, soc, n) }

\* sum over the group of discharge - charge at step t (linearized revision)
TotalNet(G, plan, t) ==
    LET RECURSIVE Sum(_)
        Sum(S) == IF S = {} THEN 0
                  ELSE LET u == CHOOSE x \in S : TRUE
                       IN  DispatchNet(u, plan[u].ch[t], plan[u].dis[t]) + Sum(S \ {u})
    IN  Sum(G)

\* sum over the group of the AC dispatch at step t
TotalACDcSide(G, plan, t) ==
    LET RECURSIVE Sum(_)
        Sum(S) == IF S = {} THEN 0
                  ELSE LET u == CHOOSE x \in S : TRUE
                       IN  100 * (plan[u].dis[t] - plan[u].ch[t]) + Sum(S \ {u})
    IN  Sum(G)
TotalAC(G, plan, t) ==
    LET RECURSIVE Sum(_)
        Sum(S) == IF S = {} THEN 0
                  ELSE LET u == CHOOSE x \in S : TRUE
                       IN  DispatchAC(u, plan[u].ch[t], plan[u].dis[t]) + Sum(S \ {u})
    IN  Sum(G)

\* cp.sum_squares(total_dispatch_ac - task_signal)
TrackingCost(G, plan, sig) ==
    LET RECURSIVE Sq(_)
        Sq(t) == IF t = 0 THEN 0
                 ELSE (TotalAC(G, plan, t) - sig[t]) * (TotalAC(G, plan, t) - sig[t]) + Sq(t - 1)
    IN  Sq(Len(sig))

\* The solutions a solver may report as optimal for a lower-level
\* sub-problem: the feasible plans of least tracking cost.
LowerOptimalPlans(G, soc, sig) ==
    LET feas == GroupPlans("determined", G, soc, Len(sig))
        costs == {TrackingCost(G, p, sig) : p \in feas}
        best == CHOOSE c \in costs : \A d \in costs : c <= d
    IN  IF feas = {} THEN {} ELSE {p \in feas : TrackingCost(G, p, sig) = best}

----------------------------------------------------------------------------
(* The optimizer calls                                                     *)

\* what solve_with_fallback can do, over everything the two solvers can do
FallbackResults(v) == {FallbackResult(v, o1, o2) : o1 \in Outcomes, o2 \in Outcomes}

\* registries per revision (the linearized lower layer solves all fast
\* assets in one problem)
RegistriesOf(v) ==
    IF v = "linearized" THEN {{"ees", "phs"}, {"fw", "hes"}} ELSE Registries

\* current_soc = hess.get_all_soc(): one level for all units of a call
SocMaps(units) == {[u \in units |-> s] : s \in SocMin..SocMax}

\* forecast / task signal values, in hundredths of a unit
UpperLevels == {0, 100}
MidLevels == {0, 100}
HighLevels == {-100, 0}
\* scenario forecast errors (stochastic revision), in hundredths
ErrLevels == {0, 100}
\* scenarios[0, :]: the error of the first scenario, one level over the
\* horizon; the other scenarios constrain only their own recourse variables
ScenarioErrors(v) ==
    IF v = "stochastic" THEN {[t \in 1..PH_upper |-> e] : e \in ErrLevels}
    ELSE {Zeros(PH_upper)}

\* the key final_dispatch uses for a unit
DispatchKey(v, u) == IF v = "linearized" THEN u \o "_power" ELSE u

OpClearResult ==
    /\ op_ok' = <<>>
    /\ op_plan' = <<>>
    /\ op_grid' = <<>>
    /\ res_kind' = "none"
    /\ res_status' = "absent"
    /\ res_dispatch' = <<>>
    /\ res_grid' = <<>>
    /\ res_ref' = <<>>

\* solve_upper_level(current_soc, grid_prices_upper, slow_task_signal_upper)
\* solve_stochastic_upper_level(current_soc, grid_prices_upper,
\*                              net_load_forecast_upper, scenarios, probabilities)
\* solve_upper_layer(initial_soc_dict, pred_wind, pred_solar, pred_load, ...)
\* op_sig.sig is the signal the power balance is written for; op_sig.scen0 the
\* error of scenario 0 (zero outside the stochastic revision).
OpCallUpper ==
    /\ op_pc = "idle"
    /\ \E v \in Variants :
        /\ op_variant' = v
        /\ \E units \in RegistriesOf(v) :
            /\ op_units' = units
            /\ op_soc' \in SocMaps(units)
        /\ \E sig \in [1..PH_upper -> UpperLevels], scen0 \in ScenarioErrors(v) :
            op_sig' = [sig |-> sig, scen0 |-> scen0]
    /\ op_call' = "upper"
    /\ op_pc' = "upper"
    /\ OpClearResult

\* first-stage dispatch_ac per unit, over the horizon
UpperDispatchACFrozen(G, plan) ==
    [u \in G |-> [t \in 1..PH_upper |-> DispatchAC(u, plan[u].ch[1], plan[u].dis[1])]]
UpperDispatchAC(G, plan) ==
    [u \in G |-> [t \in 1..PH_upper |-> DispatchAC(u, plan[u].ch[t], plan[u].dis[t])]]

\* discharge_power.value - charge_power.value per unit (linearized)
UpperDispatchNet(G, plan) ==
    [u \in G |-> [t \in 1..PH_upper |-> DispatchNet(u, plan[u].ch[t], plan[u].dis[t])]]

\* P_grid_max_w, in hundredths of a unit (500 MW)
P_grid_max == 50000
Clamp(x, lo, hi) == IF x < lo THEN lo ELSE IF x > hi THEN hi ELSE x

\* what the failure branch of the upper solve returns as "dispatch"
UpperFailedDispatch(v, G) ==
    IF v = "stochastic" THEN [u \in G |-> Zeros(PH_upper)] ELSE <<>>

\* the problem is built, solve_with_fallback runs, the result is returned
OpSolveUpper ==
    /\ op_pc = "upper"
    /\ LET v == op_variant
           E == energy_assets(op_units)
           S == smoothing_assets(op_units)
       IN \E r \in FallbackResults(v) :
          \/ /\ r = "raise"
             /\ op_pc' = "raised"
             /\ op_ok' = [upper |-> "raise"]
             /\ UNCHANGED <<op_plan, op_grid, res_kind, res_status, res_dispatch,
                            res_grid, res_ref>>
          \/ /\ r = "false"
             /\ op_pc' = "returned"
             /\ op_ok' = [upper |-> "false"]
             /\ UNCHANGED <<op_plan, op_grid>>
             /\ res_ref' = <<>>
             /\ IF v = "linearized"
                THEN /\ res_kind' = "None"
                     /\ res_status' = "absent"
                     /\ res_dispatch' = <<>>
                     /\ res_grid' = <<>>
                ELSE /\ res_kind' = "dict"
                     /\ res_status' = "failed"
                     /\ res_dispatch' = UpperFailedDispatch(v, E)
                     /\ res_grid' = Zeros(PH_upper)
          \/ /\ r = "true"
             /\ op_pc' = "returned"
             /\ op_ok' = [upper |-> "true"]
             /\ res_kind' = "dict"
             /\ \E plan \in GroupPlans(v, E, op_soc, PH_upper) :
                CASE v = "determined" ->
                       LET grid == [t \in 1..PH_upper |->
                                      op_sig.sig[t] - TotalAC(E, plan, t)]
                       IN /\ op_plan' = [energy |-> plan]
                          /\ op_grid' = grid
                          /\ res_status' = "optimal"
                          /\ res_dispatch' = UpperDispatchAC(E, plan)
                          /\ res_grid' = grid
                          /\ res_ref' = <<>>
                  [] v = "stochastic" ->
                       \* the recourse of scenario 0; the other scenarios have
                       \* the same feasible set and their grid_exchange is free
                       \E rec \in GroupPlans(v, S, op_soc, PH_upper) :
                       LET grid == [t \in 1..PH_upper |->
                                      op_sig.sig[t] + op_sig.scen0[t]
                                      - TotalAC(E, plan, t) - TotalAC(S, rec, t)]
                       IN /\ op_plan' = [energy |-> plan, recourse0 |-> rec]
                          /\ op_grid' = grid
                          /\ res_status' = "optimal"
                          /\ res_dispatch' = UpperDispatchAC(E, plan)
                          /\ res_grid' = grid
                          /\ res_ref' = <<>>
                  [] v = "linearized" ->
                       \* slack_pos - slack_neg costs 1e6 per unit: the
                       \* residual is zero unless grid_power is at its bound
                       LET grid == [t \in 1..PH_upper |->
                                      Clamp(op_sig.sig[t] - TotalNet(E, plan, t),
                                            -P_grid_max, P_grid_max)]
                       IN /\ op_plan' = [energy |-> plan]
                          /\ op_grid' = grid
                          /\ res_status' = "absent"
                          /\ res_dispatch' = UpperDispatchNet(E, plan)
                          /\ res_grid' = <<>>
                          /\ res_ref' = [t \in 1..PH_upper |->
                                           op_sig.sig[t] - TotalNet(E, plan, t) - grid[t]]
    /\ UNCHANGED <<op_variant, op_call, op_units, op_soc, op_sig>>

\* solve_lower_level(current_soc, mid_task_signal, high_task_signal)
\* solve_lower_layer(initial_soc_dict, reference_signals, ...): op_sig.slow is
\* reference_signals["slow_asset_dispatch"]
OpCallLower ==
    /\ op_pc = "idle"
    /\ \E v \in Variants :
        /\ op_variant' = v
        /\ \E units \in RegistriesOf(v) :
            /\ op_units' = units
            /\ op_soc' \in SocMaps(units)
            /\ \E mid \in [1..PH_lower -> MidLevels], high \in [1..PH_lower -> HighLevels] :
               \E slow \in [slow_assets(units) -> [1..PH_upper -> UpperLevels]] :
                IF v = "linearized"
                THEN /\ mid = Zeros(PH_lower) /\ high = Zeros(PH_lower)
                     /\ op_sig' = [mid |-> mid, high |-> high, slow |-> slow]
                ELSE /\ \A u \in DOMAIN slow : slow[u] = Zeros(PH_upper)
                     /\ op_sig' = [mid |-> mid, high |-> high, slow |-> slow]
        /\ op_pc' = IF v = "linearized" THEN "lower_fast" ELSE "lower_mid"
    /\ op_call' = "lower"
    /\ OpClearResult

\* the command taken from a solved plan: element 0 of the horizon
FirstStepLast(v, u, p) ==
    IF v = "linearized" THEN DispatchNet(u, p.ch[Len(p.ch)], p.dis[Len(p.dis)])
    ELSE DispatchAC(u, p.ch[Len(p.ch)], p.dis[Len(p.dis)])
FirstStep(v, u, p) ==
    IF v = "linearized" THEN DispatchNet(u, p.ch[1], p.dis[1])
    ELSE DispatchAC(u, p.ch[1], p.dis[1])

\* final_dispatch after one sub-problem: the group's entries are written from
\* the plan on success and set to 0 on failure
WriteGroupNoZero(v, fd, G, ok, plan) ==
    IF ok THEN [k \in DOMAIN fd \cup G |-> IF k \in G THEN FirstStep(v, k, plan[k]) ELSE fd[k]]
    ELSE fd
WriteGroup(v, fd, G, ok, plan) ==
    [k \in DOMAIN fd \cup G |->
        IF k \in G THEN (IF ok THEN FirstStep(v, k, plan[k]) ELSE 0) ELSE fd[k]]

\* Optimization 1: smoothing assets, mid-frequency signal
OpSolveMid ==
    /\ op_pc = "lower_mid"
    /\ LET G == smoothing_assets(op_units)
       IN IF G = {}
          THEN /\ op_pc' = "lower_high"
               /\ UNCHANGED <<op_ok, op_plan, res_dispatch>>
          ELSE \E r \in FallbackResults(op_variant) :
               \/ /\ r = "raise"
                  /\ op_pc' = "raised"
                  /\ op_ok' = [mid |-> "raise"]
                  /\ UNCHANGED <<op_plan, res_dispatch>>
               \/ /\ r = "false"
                  /\ op_pc' = "lower_high"
                  /\ op_ok' = [mid |-> "false"]
                  /\ UNCHANGED op_plan
                  /\ res_dispatch' = WriteGroup(op_variant, res_dispatch, G, FALSE, <<>>)
               \/ /\ r = "true"
                  /\ op_pc' = "lower_high"
                  /\ op_ok' = [mid |-> "true"]
                  /\ \E plan \in LowerOptimalPlans(G, op_soc, op_sig.mid) :
                      /\ op_plan' = [mid |-> plan]
                      /\ res_dispatch' = WriteGroup(op_variant, res_dispatch, G, TRUE, plan)
    /\ UNCHANGED <<op_variant, op_call, op_units, op_soc, op_sig, op_grid,
                   res_kind, res_status, res_grid, res_ref>>

\* Optimization 2: power assets, high-frequency signal; return final_dispatch
OpSolveHigh ==
    /\ op_pc = "lower_high"
    /\ LET G == power_assets(op_units)
       IN IF G = {}
          THEN /\ op_pc' = "returned"
               /\ res_kind' = "dict"
               /\ UNCHANGED <<op_ok, op_plan, res_dispatch>>
          ELSE \E r \in FallbackResults(op_variant) :
               \/ /\ r = "raise"
                  /\ op_pc' = "raised"
                  /\ op_ok' = op_ok @@ [high |-> "raise"]
                  /\ UNCHANGED <<op_plan, res_dispatch, res_kind>>
               \/ /\ r = "false"
                  /\ op_pc' = "returned"
                  /\ res_kind' = "dict"
                  /\ op_ok' = op_ok @@ [high |-> "false"]
                  /\ UNCHANGED op_plan
                  /\ res_dispatch' = WriteGroup(op_variant, res_dispatch, G, FALSE, <<>>)
               \/ /\ r = "true"
                  /\ op_pc' = "returned"
                  /\ res_kind' = "dict"
                  /\ op_ok' = op_ok @@ [high |-> "true"]
                  /\ \E plan \in LowerOptimalPlans(G, op_soc, op_sig.high) :
                      /\ op_plan' = op_plan @@ [high |-> plan]
                      /\ res_dispatch' = WriteGroup(op_variant, res_dispatch, G, TRUE, plan)
    /\ UNCHANGED <<op_variant, op_call, op_units, op_soc, op_sig, op_grid,
                   res_status, res_grid, res_ref>>

\* the slow entries of the linearized final_dispatch: element 0 of each
\* series of reference_signals["slow_asset_dispatch"]
SlowEntries(slow) ==
    [k \in {DispatchKey("linearized", u) : u \in DOMAIN slow} |->
        LET u == CHOOSE x \in DOMAIN slow : DispatchKey("linearized", x) = k
        IN  slow[u][1]]

\* solve_lower_layer: one problem over all fast assets
OpSolveFast ==
    /\ op_pc = "lower_fast"
    /\ LET v == op_variant
           G == fast_assets(op_units)
       IN \E r \in FallbackResults(v) :
          \/ /\ r = "raise"
             /\ op_pc' = "raised"
             /\ op_ok' = [fast |-> "raise"]
             /\ UNCHANGED <<op_plan, res_kind, res_dispatch>>
          \/ /\ r = "false"
             /\ op_pc' = "returned"
             /\ op_ok' = [fast |-> "false"]
             /\ res_kind' = "None"
             /\ UNCHANGED <<op_plan, res_dispatch>>
          \/ /\ r = "true"
             /\ op_pc' = "returned"
             /\ op_ok' = [fast |-> "true"]
             /\ res_kind' = "dict"
             /\ \E plan \in GroupPlans(v, G, op_soc, PH_lower) :
                 /\ op_plan' = [fast |-> plan]
                 /\ res_dispatch' =
                      [k \in {DispatchKey(v, u) : u \in G} |->
                          LET u == CHOOSE x \in G : DispatchKey(v, x) = k
                          IN  FirstStep(v, u, plan[u])]
                      @@ SlowEntries(op_sig.slow)
    /\ UNCHANGED <<op_variant, op_call, op_units, op_soc, op_sig, op_grid,
                   res_status, res_grid, res_ref>>

\* the caller takes the result; the optimizer is ready for the next call
OpDone ==
    /\ op_pc \in {"returned", "raised"}
    /\ op_pc' = "idle"
    /\ op_variant' = "determined"
    /\ op_call' = "none"
    /\ op_units' = {}
    /\ op_soc' = <<>>
    /\ op_sig' = <<>>
    /\ OpClearResult

OpNext ==
    \/ OpCallUpper /\ UNCHANGED <<fbVars, loopVars, plantVars, pfVars, hessVars>>
    \/ OpSolveUpper /\ UNCHANGED <<fbVars, loopVars, plantVars, pfVars, hessVars>>
    \/ OpCallLower /\ UNCHANGED <<fbVars, loopVars, plantVars, pfVars, hessVars>>
    \/ OpSolveMid /\ UNCHANGED <<fbVars, loopVars, plantVars, pfVars, hessVars>>
    \/ OpSolveHigh /\ UNCHANGED <<fbVars, loopVars, plantVars, pfVars, hessVars>>
    \/ OpSolveFast /\ UNCHANGED <<fbVars, loopVars, plantVars, pfVars, hessVars>>
    \/ OpDone /\ UNCHANGED <<fbVars, loopVars, plantVars, pfVars, hessVars>>

\* an optimizer object before its first call
OpInit == OpIdle /\ FbInit /\ LoopIdle /\ PlantIdle /\ PfIdle /\ HessInit

SpecOpt == OpInit /\ [][OpNext]_vars

----------------------------------------------------------------------------
(* Properties of the optimizer calls (SpecOpt)                             *)

\* a sub-problem of the call whose solve_with_fallback returned r
SubResult(name, r) == name \in DOMAIN op_ok /\ op_ok[name] = r

LowerReturned ==
    op_call = "lower" /\ op_pc = "returned" /\ op_variant # "linearized"

\* sum over the units of a returned dispatch mapping at step t
SumDispatch(d, t) ==
    LET RECURSIVE Sum(_)
        Sum(S) == IF S = {} THEN 0
                  ELSE LET u == CHOOSE x \in S : TRUE IN d[u][t] + Sum(S \ {u})
    IN  Sum(DOMAIN d)

\* C2: when solve_lower_level returns and solve_with_fallback returned false
\* for the smoothing (mid band) or the power (high band) sub-problem, the
\* returned mapping has an entry equal to 0 for every asset of that group,
\* whatever the other sub-problem did.
C2_FailedGroupZero ==
    LowerReturned =>
        /\ SubResult("mid", "false") =>
             \A u \in smoothing_assets(op_units) :
                 u \in DOMAIN res_dispatch /\ res_dispatch[u] = 0
        /\ SubResult("high", "false") =>
             \A u \in power_assets(op_units) :
                 u \in DOMAIN res_dispatch /\ res_dispatch[u] = 0

\* the mid-band problem failed, the high-band one succeeded with a nonzero
\* command, and the smoothing asset's entry is 0
C2_Witness ==
    /\ LowerReturned
    /\ SubResult("mid", "false")
    /\ SubResult("high", "true")
    /\ \E u \in power_assets(op_units) : res_dispatch[u] # 0
    /\ \E u \in smoothing_assets(op_units) : res_dispatch[u] = 0

\* C3: when no solver reaches an optimal status, the upper-layer optimizer
\* returns (does not raise) a result marked failed, with a zero array of
\* length PH_upper for every energy asset and a zero grid-exchange array.
C3_FailedUpperResult ==
    (op_call = "upper" /\ op_pc \in {"returned", "raised"} /\ ~SubResult("upper", "true")) =>
        /\ op_pc = "returned"
        /\ res_kind = "dict"
        /\ res_status = "failed"
        /\ \A u \in energy_assets(op_units) :
               u \in DOMAIN res_dispatch /\ res_dispatch[u] = Zeros(PH_upper)
        /\ res_grid = Zeros(PH_upper)

\* the plan a successful sub-problem produced, per group name
SolvedGroups ==
    {name \in DOMAIN op_plan \cap {"mid", "high", "fast"} : SubResult(name, "true")}

\* C6 as stated: after a successful lower-layer solve the command of each
\* asset of the group is discharge[0] * efficiency - charge[0] / efficiency.
C6_FirstElementAC ==
    (op_call = "lower" /\ op_pc = "returned") =>
        \A name \in SolvedGroups : \A u \in DOMAIN op_plan[name] :
            res_dispatch[DispatchKey(op_variant, u)]
                = DispatchAC(u, op_plan[name][u].ch[1], op_plan[name][u].dis[1])

\* C6 amended: the command is computed from element 0 of the discharge and
\* charge plans only: discharge[0] * efficiency - charge[0] / efficiency in
\* solve_lower_level, discharge[0] - charge[0] in solve_lower_layer.
C6_FirstElementOnly ==
    (op_call = "lower" /\ op_pc = "returned") =>
        \A name \in SolvedGroups : \A u \in DOMAIN op_plan[name] :
            res_dispatch[DispatchKey(op_variant, u)]
                = IF op_variant = "linearized"
                  THEN DispatchNet(u, op_plan[name][u].ch[1], op_plan[name][u].dis[1])
                  ELSE DispatchAC(u, op_plan[name][u].ch[1], op_plan[name][u].dis[1])

\* a solved plan whose later elements differ from element 0, in both layers'
\* conventions (one state shows one of them)
C6_Witness ==
    /\ op_call = "lower" /\ op_pc = "returned"
    /\ \E name \in SolvedGroups : \E u \in DOMAIN op_plan[name] :
        LET p == op_plan[name][u]
        IN /\ p.dis[1] # p.dis[Len(p.dis)]
           /\ res_dispatch[DispatchKey(op_variant, u)] # 0
           /\ EffPct(u) # 100

\* every plan of the call, as (group name, unit) pairs
PlannedUnits == {nu \in (DOMAIN op_plan) \X DriverIds : nu[2] \in DOMAIN op_plan[nu[1]]}

InBox(s) == SocMin <= s /\ s <= SocMax

\* C9 as stated: in every plan returned as optimal, each asset's planned SOC
\* is within [soc_min, soc_max] at every t in 0..PH.
C9_SocInBox ==
    op_pc = "returned" =>
        \A nu \in PlannedUnits :
            LET soc == op_plan[nu[1]][nu[2]].soc
            IN  \A t \in DOMAIN soc : InBox(soc[t])

\* C9 amended: in every plan solve_upper_level, solve_stochastic_upper_level
\* and solve_lower_level return as optimal the planned SOC is within
\* [soc_min, soc_max] at every t in 0..PH (the linearized revision bounds SOC
\* only up to its penalised slack variables).
C9_SocInBoxHard ==
    (op_pc = "returned" /\ op_variant # "linearized") =>
        \A nu \in PlannedUnits :
            LET soc == op_plan[nu[1]][nu[2]].soc
            IN  /\ Len(soc) = (IF op_call = "upper" THEN PH_upper ELSE PH_lower) + 1
                /\ \A t \in DOMAIN soc : InBox(soc[t])

\* an optimal plan that moves the SOC from one bound to the other
C9_Witness ==
    /\ op_pc = "returned" /\ op_variant # "linearized"
    /\ \E nu \in PlannedUnits :
        LET soc == op_plan[nu[1]][nu[2]].soc
        IN  soc[1] = SocMax /\ soc[Len(soc)] = SocMin

UpperOptimal == op_call = "upper" /\ op_pc = "returned" /\ SubResult("upper", "true")

\* C10 as stated: in every upper-layer plan returned as optimal the forecast
\* net load equals, at every step, the sum of the energy assets' net discharge
\* plus the grid exchange.
C10_Balance ==
    UpperOptimal =>
        \A t \in 1..PH_upper :
            op_sig.sig[t] = SumDispatch(res_dispatch, t) + op_grid[t]

\* C10 amended: the returned plan satisfies the balance its revision writes:
\* determined: slow_task_signal_upper = sum of energy dispatch + grid_exchange;
\* stochastic: net_load_forecast + scenarios[0] = sum of energy dispatch
\*   + sum of the smoothing assets' scenario-0 recourse + grid_exchange[0];
\* linearized: net_load - sum of (discharge - charge) - grid_power
\*   = slack_pos - slack_neg, returned as fast_asset_net_power_ref.
C10_BalancePerRevision ==
    UpperOptimal =>
        \A t \in 1..PH_upper :
            CASE op_variant = "determined" ->
                   op_sig.sig[t] = SumDispatch(res_dispatch, t) + res_grid[t]
              [] op_variant = "stochastic" ->
                   op_sig.sig[t] + op_sig.scen0[t]
                     = SumDispatch(res_dispatch, t)
                       + SumDispatch([u \in DOMAIN op_plan.recourse0 |->
                            [k \in 1..PH_upper |->
                               DispatchAC(u, op_plan.recourse0[u].ch[k],
                                             op_plan.recourse0[u].dis[k])]], t)
                       + res_grid[t]
              [] op_variant = "linearized" ->
                   op_sig.sig[t] - SumDispatch(res_dispatch, t) - op_grid[t] = res_ref[t]

\* an optimal stochastic plan with a scenario error, a dispatching energy
\* asset and a nonzero smoothing recourse
C10_Witness ==
    /\ UpperOptimal
    /\ op_variant = "stochastic"
    /\ op_sig.scen0[1] # 0
    /\ \E u \in DOMAIN res_dispatch : res_dispatch[u][1] # 0
    /\ \E u \in DOMAIN op_plan.recourse0 : op_plan.recourse0[u].dis[1] # 0

----------------------------------------------------------------------------
(* The simulation loops: main_simulation_hierarchical.py ("hier") and      *)
(* main_simulation_stochastic.py ("stoch")                                 *)

Drivers == {"hier", "stoch"}

\* dt_lower and dt_upper, in seconds (the scripts set 1 or 5, and 15 * 60)
DtLowerChoices == {30, 60}
DtUpperChoices == {30, 150, 300, 900}

\* duration = 1 * 3600
duration == 3600

\* downsample_ratio = int(900 / dt_s) in the data generators
UpperSamplePeriod == 900

\* p_mw * 1e6
WattsPerMW == 1000000

\* the units the driver registers (two energy assets, one smoothing, one power)
LoopUnits == {"fw", "ees", "phs", "hes"}

\* values of a returned plan element / lower-layer command
LoopPlanLevels == {0, 1}

CeilDiv(a, b) == (a + b - 1) \div b

\* len(np.arange(0, duration, dt_lower))
NumLowerSteps(dtl) == CeilDiv(duration, dtl)

\* len(net_load_upper): net_load_fine[::int(900 / dt_s)]
LenNetLoadUpper(dtl) == CeilDiv(NumLowerSteps(dtl), UpperSamplePeriod \div dtl)

\* the lengths of the forecast arrays prepared for the upper solve at upper
\* step k_upper, in the order of the call's arguments, and whether np.pad
\* raised (mode 'edge' on an empty array). hier pads the prices by the net
\* load's pad_size and adds the downsampled low band; stoch pads the net load
\* and the prices each by its own length.  len(grid_prices_upper): hier
\* samples the prices like net_load_upper, stoch generates one per dt_upper.
UpperForecastLens(drv, dtl, dtu, k_upper) ==
    LET \* len(a[k : k + h]) for len(a) = total
        SliceLen(total, k, h) ==
            IF k >= total THEN 0 ELSE IF k + h <= total THEN h ELSE total - k
        LenGridPricesUpper ==
            IF drv = "hier" THEN LenNetLoadUpper(dtl) ELSE CeilDiv(duration, dtu)
        nl == SliceLen(LenNetLoadUpper(dtl), k_upper, PH_upper)
        pr == SliceLen(LenGridPricesUpper, k_upper, PH_upper)
        low == CeilDiv(PH_lower, dtu \div dtl)
        padded(n) == IF n < PH_upper THEN PH_upper ELSE n
    IN  IF drv = "hier"
        THEN [raised |-> nl < PH_upper /\ (nl = 0 \/ pr = 0),
              lens |-> <<padded(nl),
                         IF nl < PH_upper THEN pr + (PH_upper - nl) ELSE pr,
                         padded(low)>>]
        ELSE [raised |-> (nl < PH_upper /\ nl = 0) \/ (pr < PH_upper /\ pr = 0),
              lens |-> <<padded(pr), padded(nl)>>]

\* np.interp(x, xp, fp) for x = xnum / den and xp[i] = i / len(fp) (stoch:
\* np.linspace(0, 1, len(plan), endpoint=False)) or, scaled alike, x = xnum
\* seconds and xp[i] = i * den seconds (hier): the result times den.
\* Right of the last sample point np.interp returns the last value.
InterpTimesDen(xnum, den, fp, perStep) ==
    LET n == Len(fp)
        pos == IF perStep THEN xnum ELSE xnum * n
        i == pos \div den
        r == pos % den
    IN  IF i >= n - 1 THEN fp[n] * den
        ELSE fp[i + 1] * den + (fp[i + 2] - fp[i + 1]) * r

ZeroPlans == [u \in energy_assets(LoopUnits) |-> Zeros(PH_upper)]

\* the script starts: parameters set, data generated, plans initialised to 0
LoopInit ==
    /\ driver \in Drivers
    /\ dt_lower \in DtLowerChoices
    /\ dt_upper \in DtUpperChoices
    /\ k_lower = 0
    /\ lp_pc = "read"
    /\ lp_crash = "none"
    /\ slow_asset_dispatch_plan_upper = ZeroPlans
    /\ planned_slow_dispatch = <<>>
    /\ current_dispatch = <<>>
    /\ n_upper = 0
    /\ n_decompose = 0
    /\ n_lower = 0
    /\ hess_state = 0
    /\ current_soc = <<>>
    /\ soc_given = <<>>
    /\ n_soc_read = 0

t_lower == k_lower * dt_lower

\* hess.get_all_soc() on units in state h: the SOC map of that state
get_all_socStale(h) == <<h - 1>>
get_all_soc(h) == <<h>>

\* top of an iteration: current_soc = hess.get_all_soc() (stoch then replaces
\* None entries of that same map by 0.5)
LoopRead ==
    /\ lp_pc = "read"
    /\ current_soc' = get_all_soc(hess_state)
    /\ n_soc_read' = n_soc_read + 1
    /\ lp_pc' = IF driver = "hier" THEN "decompose" ELSE "upper"
    /\ UNCHANGED <<driver, dt_lower, dt_upper, k_lower, lp_crash,
                   slow_asset_dispatch_plan_upper, planned_slow_dispatch,
                   current_dispatch, n_upper, n_decompose, n_lower,
                   hess_state, soc_given>>

\* the upper-layer call of the loop and what the loop does with its result
UpperSolveInLoop ==
    /\ n_upper' = n_upper + 1
    /\ soc_given' = Append(soc_given, [to |-> "upper", soc |-> current_soc])
    /\ \/ \* status "optimal": the returned plan replaces the current one
          /\ slow_asset_dispatch_plan_upper' \in
                [energy_assets(LoopUnits) -> [1..PH_upper -> LoopPlanLevels]]
          /\ lp_crash' = lp_crash
          /\ lp_pc' = IF driver = "hier" THEN "lower" ELSE "decompose"
       \/ \* any other result: the plan is zeroed
          /\ slow_asset_dispatch_plan_upper' = ZeroPlans
          /\ lp_crash' = lp_crash
          /\ lp_pc' = IF driver = "hier" THEN "lower" ELSE "decompose"
       \/ \* the call raises (solve_with_fallback lets an exception through)
          /\ lp_crash' = "solver"
          /\ lp_pc' = "crashed"
          /\ UNCHANGED slow_asset_dispatch_plan_upper

UpperSkipped ==
    /\ lp_pc' = IF driver = "hier" THEN "lower" ELSE "decompose"
    /\ UNCHANGED <<n_upper, slow_asset_dispatch_plan_upper, lp_crash, soc_given>>

\* hier, B: if k_lower % int(dt_upper / dt_lower) == 0: ... if k_upper < len(net_load_upper)
\* stoch, 1: if t_lower % dt_upper == 0: ... np.pad(net_load_upper[k_upper:...], 'edge')
LoopUpper ==
    /\ lp_pc = "upper"
    /\ LET k_upper == t_lower \div dt_upper
       IN IF driver = "hier"
          THEN IF dt_upper \div dt_lower = 0
               THEN /\ lp_crash' = "ZeroDivisionError"
                    /\ lp_pc' = "crashed"
                    /\ UNCHANGED <<n_upper, slow_asset_dispatch_plan_upper, soc_given>>
               ELSE IF k_lower % (dt_upper \div dt_lower) = 0
                       /\ k_upper < LenNetLoadUpper(dt_lower)
                    THEN UpperSolveInLoop
                    ELSE UpperSkipped
          ELSE IF t_lower % dt_upper = 0
               THEN IF UpperForecastLens(driver, dt_lower, dt_upper, k_upper).raised
                    THEN \* np.pad of an empty slice with mode 'edge'
                         /\ lp_crash' = "ValueError"
                         /\ lp_pc' = "crashed"
                         /\ UNCHANGED <<n_upper, slow_asset_dispatch_plan_upper, soc_given>>
                    ELSE UpperSolveInLoop
               ELSE UpperSkipped
    /\ UNCHANGED <<driver, dt_lower, dt_upper, k_lower, planned_slow_dispatch,
                   current_dispatch, n_decompose, n_lower,
                   hess_state, current_soc, n_soc_read>>

\* hier, A: the net-load forecast window is decomposed.
\* stoch, 2-4: the planned slow power is interpolated from the upper plan,
\* then the imbalance is decomposed.
LoopDecompose ==
    /\ lp_pc = "decompose"
    /\ n_decompose' = n_decompose + 1
    /\ IF driver = "hier"
       THEN /\ lp_pc' = "upper"
            /\ UNCHANGED planned_slow_dispatch
       ELSE /\ lp_pc' = "lower"
            /\ planned_slow_dispatch' =
                 [u \in DOMAIN slow_asset_dispatch_plan_upper |->
                    [num |-> InterpTimesDen(t_lower % dt_upper, dt_upper,
                                            slow_asset_dispatch_plan_upper[u], FALSE)
                             * WattsPerMW,
                     den |-> dt_upper]]
    /\ UNCHANGED <<driver, dt_lower, dt_upper, k_lower, lp_crash,
                   slow_asset_dispatch_plan_upper, current_dispatch, n_upper, n_lower,
                   hess_state, current_soc, soc_given, n_soc_read>>

\* hier, C: the upper plan is interpolated onto the lower time grid
\* (t_lower_future[0] = 0) and the lower layer is solved; D: current_dispatch
\* takes the lower layer's commands and element 0 of each interpolated plan.
\* stoch, 4-5: the lower layer is solved; current_dispatch takes its commands
\* in W, updated with planned_slow_dispatch_watts.
LoopLower ==
    /\ lp_pc = "lower"
    /\ n_lower' = n_lower + 1
    /\ soc_given' = Append(soc_given, [to |-> "lower", soc |-> current_soc])
    /\ \/ /\ lp_pc' = "update"
          /\ lp_crash' = lp_crash
          /\ \E cmd \in [power_assets(LoopUnits) \cup smoothing_assets(LoopUnits)
                           -> LoopPlanLevels] :
              LET lower == [u \in DOMAIN cmd |->
                              [num |-> IF driver = "stoch" THEN cmd[u] * WattsPerMW
                                       ELSE cmd[u],
                               den |-> 1]]
                  slow == IF driver = "stoch" THEN planned_slow_dispatch
                          ELSE [u \in DOMAIN slow_asset_dispatch_plan_upper |->
                                  [num |-> InterpTimesDen(0, dt_upper,
                                              slow_asset_dispatch_plan_upper[u], TRUE),
                                   den |-> dt_upper]]
              IN  /\ current_dispatch' = slow @@ lower
                  /\ planned_slow_dispatch' = slow
       \/ /\ lp_pc' = "crashed"
          /\ lp_crash' = "solver"
          /\ UNCHANGED <<current_dispatch, planned_slow_dispatch>>
    /\ UNCHANGED <<driver, dt_lower, dt_upper, k_lower,
                   slow_asset_dispatch_plan_upper, n_upper, n_decompose,
                   hess_state, current_soc, n_soc_read>>

\* hess.update_all_states(current_dispatch); results are appended; the loop
\* moves to the next k_lower or ends
LoopUpdate ==
    /\ lp_pc = "update"
    /\ k_lower' = k_lower + 1
    /\ lp_pc' = IF k_lower + 1 >= NumLowerSteps(dt_lower) THEN "done" ELSE "read"
    /\ hess_state' = hess_state + 1
    /\ current_soc' = <<>>
    /\ soc_given' = <<>>
    /\ n_soc_read' = 0
    /\ n_upper' = 0
    /\ n_decompose' = 0
    /\ n_lower' = 0
    /\ planned_slow_dispatch' = <<>>
    /\ current_dispatch' = <<>>
    /\ UNCHANGED <<driver, dt_lower, dt_upper, lp_crash, slow_asset_dispatch_plan_upper>>

LoopNext ==
    \/ LoopRead /\ UNCHANGED <<fbVars, opVars, plantVars, pfVars, hessVars>>
    \/ LoopUpper /\ UNCHANGED <<fbVars, opVars, plantVars, pfVars, hessVars>>
    \/ LoopDecompose /\ UNCHANGED <<fbVars, opVars, plantVars, pfVars, hessVars>>
    \/ LoopLower /\ UNCHANGED <<fbVars, opVars, plantVars, pfVars, hessVars>>
    \/ LoopUpdate /\ UNCHANGED <<fbVars, opVars, plantVars, pfVars, hessVars>>

\* a driver script at the top of its loop
InitLoop == LoopInit /\ FbInit /\ OpIdle /\ PlantIdle /\ PfIdle /\ HessInit

SpecLoop == InitLoop /\ [][LoopNext]_vars

\* C7: at every lower step the command applied to each energy asset is
\* element 0 of the current upper plan; later elements are never applied.
C7_AppliesFirstElement ==
    lp_pc = "update" =>
        \A u \in energy_assets(LoopUnits) :
            /\ u \in DOMAIN current_dispatch
            /\ current_dispatch[u].num =
                 slow_asset_dispatch_plan_upper[u][1] * current_dispatch[u].den
                 * (IF driver = "stoch" THEN WattsPerMW ELSE 1)

\* C8: the upper layer is invoked at lower step k exactly when k is a
\* multiple of dt_upper / dt_lower, the decomposer and the lower layer are
\* each invoked exactly once at every lower step, for any positive dt_lower
\* and dt_upper.  (A step cut short by an exception out of a solver call is
\* not counted against the cadence.)
C8_Cadence ==
    /\ lp_pc = "update" =>
          /\ (n_upper = 1) <=> ((k_lower * dt_lower) % dt_upper = 0)
          /\ n_upper <= 1
          /\ n_decompose = 1
          /\ n_lower = 1
    /\ lp_pc = "crashed" => lp_crash = "solver"

\* C26: in an iteration of the loop the SOC map is read exactly once, before
\* any solve; every solve of the iteration is handed that map; the units do
\* not change state between the read and the return of the lower solve; and
\* the units change state exactly once per completed iteration, through the
\* update_all_states that follows the lower solve.  (An iteration ended by an
\* exception makes no update.)
C26_ReadSolveUpdate ==
    [][/\ (n_upper' + n_lower' > 0 \/ lp_pc' = "update") =>
             /\ n_soc_read' = 1
             /\ current_soc' = <<hess_state'>>
             /\ Len(soc_given') = n_upper' + n_lower'
             /\ \A i \in DOMAIN soc_given' : soc_given'[i].soc = current_soc'
       /\ lp_pc' = "update" =>
             /\ n_lower' = 1
             /\ soc_given'[Len(soc_given')].to = "lower"
       /\ hess_state' # hess_state =>
             /\ lp_pc = "update"
             /\ hess_state' = hess_state + 1
       /\ (k_lower' # k_lower) <=> (hess_state' # hess_state)]_vars

\* an iteration in which both solves ran, after earlier iterations had
\* changed the units, is about to update them
C26_Witness ==
    /\ lp_pc = "update"
    /\ hess_state > 0
    /\ n_upper = 1
    /\ soc_given = <<[to |-> "upper", soc |-> <<hess_state>>],
                     [to |-> "lower", soc |-> <<hess_state>>]>>

----------------------------------------------------------------------------
(* The storage units that implement update_state: FlywheelModel ("fw"),    *)
(* ElectrochemicalEnergyStorage ("ees"), DiabaticCAES ("caes").            *)
(* Quantities live on integer grids: powers in MW, energies in MWh, SOH    *)
(* and SOC limits in percent; one update_state covers PlantDtNum/PlantDtDen *)
(* of an hour.                                                             *)

PlantKinds == {"fw", "ees", "caes"}

\* self.soc_min, self.soc_max, in percent
soc_min(kind) == IF kind = "caes" THEN 20 ELSE 10
soc_max(kind) == IF kind = "caes" THEN 98 ELSE 90

\* rated_power_w (fw), power_m_w (ees), P_comp_rated_w = P_gen_rated_w (caes)
RatedPower(kind) == CASE kind = "fw" -> 60 [] kind = "ees" -> 100 [] OTHER -> 50

Min2(a, b) == IF a <= b THEN a ELSE b
Max2(a, b) == IF a >= b THEN a ELSE b

\* ---- FlywheelModel: the state is the angular velocity omega
\* omega_min = omega_max * min_to_max_vel_ratio (ratio 0.3)
omega_min == 6
omega_max == 20
\* rated_torque_mg = rated_power_w / omega_min
rated_torque_mg == RatedPower("fw") \div omega_min
\* eta_ch = eta_dis = 0.98
FwEtaPct == 98

\* _get_loss_torque: kf * omega, strictly positive; rounded up to the grid
FwLossTorque(omega) == CeilDiv(omega, omega_max)

\* _get_electromagnetic_torque
FwTorque(power_elec, omega, is_charging) ==
    IF is_charging
    THEN Clamp((power_elec * FwEtaPct) \div (100 * omega), -rated_torque_mg, rated_torque_mg)
    ELSE Clamp(-((power_elec * 100) \div (omega * FwEtaPct)), -rated_torque_mg, rated_torque_mg)

\* _update_angular_velocity(_get_net_torque(tau_mg), time_s), with time_s / J = 1
FwSpin(omega, tau_mg) == Clamp(omega + (tau_mg - FwLossTorque(omega)), omega_min, omega_max)

\* ---- ElectrochemicalEnergyStorage: the state is E_ees_mwh, with soh
\* nominal_capacity_mwh = 200; current_capacity_mwh = nominal_capacity_mwh * soh
EesCapacity(soh) == 2 * soh
\* eta_ch = eta_dis = 0.95
EesEtaPct == 95
\* time_h = time_s / 3600, as a fraction (dt_s = 3600)
PlantDtNum == 1
PlantDtDen == 1
\* self.soh = max(0.8, self.soh)
SohFloor == 80
\* soh_loss = 1 / np.interp(dod, dod_points, life_points): positive for every
\* depth of discharge; one grid step
SohLoss(dod) == 5
\* SOC in percent, as last_cycle_soc_min / last_cycle_soc_max hold it
EesSocPct(E, soh) == (100 * E) \div EesCapacity(soh)

\* ---- DiabaticCAES: the state is M_air_kg
M_air_max == 100
\* eta_charge_rate = 7.2 and eta_air_usage = 4.0 kg per kWh, times the step
\* length, in percent of a mass unit per MW
CaesChargeRatePct == 72
CaesAirUsagePct == 40

\* self.efficiency as __init__ sets it from the default parameters, as the
\* fraction num / den: np.sqrt(charge_efficiency * discharge_efficiency) for
\* the flywheel and the electrochemical unit, whose two defaults are equal,
\* so that the root is their common value; charge_rate_kg_per_kwh /
\* air_usage_rate_kg_per_kwh for CAES, or 0 when the air usage rate is not
\* above 1e-6
efficiency(kind) ==
    CASE kind = "fw" -> [num |-> FwEtaPct, den |-> 100]
      [] kind = "ees" -> [num |-> EesEtaPct, den |-> 100]
      [] OTHER -> IF CaesAirUsagePct > 0
                  THEN [num |-> CaesChargeRatePct, den |-> CaesAirUsagePct]
                  ELSE [num |-> 0, den |-> 1]

\* get_soc(), as the fraction num / den
get_soc(kind, x, soh) ==
    CASE kind = "fw" ->
           [num |-> x * x - omega_min * omega_min,
            den |-> omega_max * omega_max - omega_min * omega_min]
      [] kind = "ees" -> [num |-> x, den |-> EesCapacity(soh)]
      [] OTHER -> [num |-> x, den |-> M_air_max]

SocAtLeast(soc, pct) == 100 * soc.num >= pct * soc.den
SocAtMost(soc, pct) == 100 * soc.num <= pct * soc.den

\* get_available_charge_power
get_available_charge_power(kind, x, soh) ==
    IF kind = "fw"
    THEN IF x >= omega_max THEN 0
         ELSE Min2(RatedPower(kind), (rated_torque_mg * x * 100) \div FwEtaPct)
    ELSE IF SocAtLeast(get_soc(kind, x, soh), soc_max(kind)) THEN 0
         ELSE RatedPower(kind)

\* get_available_discharge_power
get_available_discharge_power(kind, x, soh) ==
    CASE kind = "fw" ->
           IF x <= omega_min THEN 0
           ELSE Min2(RatedPower(kind), (rated_torque_mg * x * FwEtaPct) \div 100)
      [] kind = "ees" ->
           IF SocAtMost(get_soc(kind, x, soh), soc_min(kind)) THEN 0 ELSE RatedPower(kind)
      [] OTHER ->
           IF SocAtMost(get_soc(kind, x, soh), soc_min(kind)) THEN 0
           ELSE LET available_air_kg == x - (M_air_max * soc_min(kind)) \div 100
                IN  \* duration_h < dt_s / 3600: the power that empties the store
                    IF available_air_kg * 100 < RatedPower(kind) * CaesAirUsagePct
                    THEN (available_air_kg * 100) \div CaesAirUsagePct
                    ELSE RatedPower(kind)

\* A unit's mutable fields as a record [state, x, soh, cycle, pelec]; pelec is
\* the local power_elec of charge / discharge after min(power, available).

\* idle_loss(time_s)
idle_lossLeaky(kind, st) ==
    [st EXCEPT !.state = "idle",
               !.x = IF kind = "fw" THEN FwSpin(st.x, 0) ELSE Max2(0, st.x - 1)]
idle_loss(kind, st) ==
    [st EXCEPT !.state = "idle",
               !.x = IF kind = "fw" THEN FwSpin(st.x, 0) ELSE st.x]

\* _update_soh (ees): the depth of discharge of the finished cycle costs SOH
\* and the cycle record restarts at the present SOC
update_soh(st) ==
    LET dod == st.cycle.max - st.cycle.min
        soc == EesSocPct(st.x, st.soh)
    IN  IF dod < 1 THEN [st EXCEPT !.cycle = [min |-> soc, max |-> soc],
                                   !.soh_runs = @ + 1]
        ELSE LET soh == Max2(SohFloor, st.soh - SohLoss(dod))
                 soc1 == EesSocPct(st.x, soh)
             IN  [st EXCEPT !.soh = soh, !.cycle = [min |-> soc1, max |-> soc1],
                            !.soh_runs = @ + 1]

\* energy moved in one step by power p with the efficiency applied
EesChargeEnergy(p) == (p * EesEtaPct * PlantDtNum) \div (100 * PlantDtDen)
EesDischargeEnergy(p) == (p * 100 * PlantDtNum) \div (EesEtaPct * PlantDtDen)

\* charge(power, time_s)
charge(kind, st, power) ==
    LET power_elec == Min2(power, get_available_charge_power(kind, st.x, st.soh))
    IN  IF power_elec <= 0 THEN [idle_loss(kind, st) EXCEPT !.pelec = 0]
        ELSE CASE kind = "fw" ->
                    [st EXCEPT !.state = "charging", !.pelec = power_elec,
                               !.x = FwSpin(st.x, FwTorque(power_elec, st.x, TRUE))]
               [] kind = "ees" ->
                    \* _update_soh refreshes current_capacity_mwh, which
                    \* the limit below uses
                    LET s1 == IF st.state = "discharging" THEN update_soh(st) ELSE st
                        cap == EesCapacity(s1.soh)
                        E == Min2(st.x + EesChargeEnergy(power_elec),
                                  (cap * soc_max(kind)) \div 100)
                        soc == EesSocPct(E, s1.soh)
                    IN  [s1 EXCEPT !.state = "charging", !.pelec = power_elec, !.x = E,
                                   !.cycle = [min |-> s1.cycle.min,
                                              max |-> Max2(s1.cycle.max, soc)]]
               [] OTHER ->
                    [st EXCEPT !.state = "charging", !.pelec = power_elec,
                               !.x = Min2(st.x + (power_elec * CaesChargeRatePct) \div 100,
                                          (M_air_max * soc_max(kind)) \div 100)]

\* discharge(power, time_s)
discharge(kind, st, power) ==
    LET power_elec == Min2(power, get_available_discharge_power(kind, st.x, st.soh))
    IN  IF power_elec <= 0 THEN [idle_loss(kind, st) EXCEPT !.pelec = 0]
        ELSE CASE kind = "fw" ->
                    [st EXCEPT !.state = "discharging", !.pelec = power_elec,
                               !.x = FwSpin(st.x, FwTorque(power_elec, st.x, FALSE))]
               [] kind = "ees" ->
                    LET E == Max2(st.x - EesDischargeEnergy(power_elec),
                                  (EesCapacity(st.soh) * soc_min(kind)) \div 100)
                        soc == EesSocPct(E, st.soh)
                    IN  [st EXCEPT !.state = "discharging", !.pelec = power_elec, !.x = E,
                                   !.cycle = [min |-> Min2(st.cycle.min, soc),
                                              max |-> st.cycle.max]]
               [] OTHER ->
                    LET available_air_kg == st.x - (M_air_max * soc_min(kind)) \div 100
                        mass == Min2((power_elec * CaesAirUsagePct) \div 100, available_air_kg)
                    IN  [st EXCEPT !.state = "discharging", !.pelec = power_elec,
                                   !.x = Max2(st.x - mass, (M_air_max * soc_min(kind)) \div 100)]

\* update_state(dispatch_power_w)
update_stateSwapped(kind, st, dispatch_power_w) ==
    IF dispatch_power_w > 0 THEN charge(kind, st, dispatch_power_w)
    ELSE IF dispatch_power_w < 0 THEN discharge(kind, st, -dispatch_power_w)
    ELSE [idle_loss(kind, st) EXCEPT !.pelec = 0]
update_state(kind, st, dispatch_power_w) ==
    IF dispatch_power_w > 0 THEN discharge(kind, st, dispatch_power_w)
    ELSE IF dispatch_power_w < 0 THEN charge(kind, st, -dispatch_power_w)
    ELSE [idle_loss(kind, st) EXCEPT !.pelec = 0]

\* dispatch commands of any sign, below and above the rated power
PlantCommands(kind) ==
    LET R == RatedPower(kind)
    IN  {-3 * R, -R, 0, R, 3 * R}

\* the stored quantity the constructor computes from initial_soc (the limits
\* and the default 0.5, in percent); for the flywheel every grid speed whose
\* SOC lies inside [soc_min, soc_max]
InitialX(kind) ==
    LET initial_soc == {soc_min(kind), 50, soc_max(kind)}
    IN
    CASE kind = "fw" ->
           {x \in omega_min..omega_max :
               /\ SocAtLeast(get_soc(kind, x, 100), soc_min(kind))
               /\ SocAtMost(get_soc(kind, x, 100), soc_max(kind))}
      [] kind = "ees" -> {(EesCapacity(100) * q) \div 100 : q \in initial_soc}
      [] OTHER -> {(M_air_max * q) \div 100 : q \in initial_soc}

\* a unit is constructed with an initial_soc inside its limits
PlantInit ==
    /\ pl_kind \in PlantKinds
    /\ pl_state = "idle"
    /\ pl_x \in InitialX(pl_kind)
    /\ pl_soh = 100
    /\ pl_cycle = IF pl_kind = "ees"
                  THEN [min |-> EesSocPct(pl_x, 100), max |-> EesSocPct(pl_x, 100)]
                  ELSE <<>>
    /\ pl_cmd = <<>>
    /\ pl_pelec = 0
    /\ pl_soh_runs = 0
    /\ pl_cycle_open = FALSE

\* hess.update_all_states(...) or a caller invokes unit.update_state(p)
PlUpdateState ==
    /\ pl_kind \in PlantKinds
    /\ \E p \in PlantCommands(pl_kind) :
        LET st == [state |-> pl_state, x |-> pl_x, soh |-> pl_soh,
                   cycle |-> pl_cycle, pelec |-> 0, soh_runs |-> 0]
            nx == update_state(pl_kind, st, p)
        IN  /\ pl_cmd' = <<p>>
            /\ pl_state' = nx.state
            /\ pl_x' = nx.x
            /\ pl_soh' = nx.soh
            /\ pl_cycle' = nx.cycle
            /\ pl_pelec' = nx.pelec
            /\ pl_soh_runs' = nx.soh_runs
            /\ pl_cycle_open' = IF nx.pelec > 0 THEN p > 0 ELSE pl_cycle_open
    /\ UNCHANGED pl_kind

PlantNext ==
    \/ PlUpdateState /\ UNCHANGED <<fbVars, opVars, loopVars, pfVars, hessVars>>

InitPlant == PlantInit /\ FbInit /\ OpIdle /\ LoopIdle /\ PfIdle /\ HessInit

SpecPlant == InitPlant /\ [][PlantNext]_vars

\* C11: started inside [soc_min, soc_max], the SOC of a unit is inside
\* [soc_min, soc_max] after any sequence of update_state commands.
C11_SocStaysInLimits ==
    pl_kind \in PlantKinds =>
        /\ SocAtLeast(get_soc(pl_kind, pl_x, pl_soh), soc_min(pl_kind))
        /\ SocAtMost(get_soc(pl_kind, pl_x, pl_soh), soc_max(pl_kind))

\* C12: get_available_charge_power() is 0 whenever SOC >= soc_max and
\* get_available_discharge_power() is 0 whenever SOC <= soc_min.
C12_NoPowerAtLimits ==
    pl_kind \in PlantKinds =>
        /\ SocAtLeast(get_soc(pl_kind, pl_x, pl_soh), soc_max(pl_kind))
             => get_available_charge_power(pl_kind, pl_x, pl_soh) = 0
        /\ SocAtMost(get_soc(pl_kind, pl_x, pl_soh), soc_min(pl_kind))
             => get_available_discharge_power(pl_kind, pl_x, pl_soh) = 0

\* C13: after update_state(p) the state is 'discharging' only if p > 0,
\* 'charging' only if p < 0, and 'idle' when p = 0 or when the power
\* available in the direction of p, read before the call, is zero.
C13_StateFollowsCommand ==
    [][LET p == pl_cmd'[1]
           clamped_to_zero ==
               \/ p > 0 /\ get_available_discharge_power(pl_kind, pl_x, pl_soh) = 0
               \/ p < 0 /\ get_available_charge_power(pl_kind, pl_x, pl_soh) = 0
       IN  /\ pl_state' = "discharging" => p > 0
           /\ pl_state' = "charging" => p < 0
           /\ (p = 0 \/ clamped_to_zero) => pl_state' = "idle"
           /\ pl_state' \in {"idle", "charging", "discharging"}]_vars

\* a nonzero command found no available power and left the unit idle
C13_Witness ==
    /\ pl_cmd # <<>>
    /\ pl_cmd[1] # 0
    /\ pl_pelec = 0
    /\ pl_state = "idle"

\* C14: update_state(0) leaves the SOC unchanged: get_soc() right after the
\* call equals get_soc() right before it.
C14_IdleKeepsSoc ==
    [][pl_cmd' = <<0>> =>
          LET before == get_soc(pl_kind, pl_x, pl_soh)
              after == get_soc(pl_kind, pl_x', pl_soh')
          IN  after.num * before.den = before.num * after.den]_vars

\* C14, for the units as built: update_state(0) leaves the SOC of the
\* electrochemical and the compressed-air unit unchanged; the flywheel's
\* loss torque acts while idle, so its SOC does not rise and does not fall
\* below the SOC of omega_min.
C14_IdleKeepsSocUnlessFlywheel ==
    [][pl_cmd' = <<0>> =>
          /\ pl_state' = "idle"
          /\ IF pl_kind = "fw"
             THEN pl_x' <= pl_x /\ pl_x' >= omega_min
             ELSE pl_x' = pl_x /\ pl_soh' = pl_soh]_vars

\* update_state(0) has just acted on an electrochemical or compressed-air
\* unit that earlier commands had moved away from its initial content
C14_Witness ==
    /\ pl_kind \in {"ees", "caes"}
    /\ pl_cmd = <<0>>
    /\ pl_x \notin InitialX(pl_kind)

\* C27: after a control step that applied zero dispatch to a unit (its
\* group's solve had failed), the problem built from the freshly measured SOC
\* is feasible: the pin soc[0] = measured SOC meets soc_min <= soc[0] <=
\* soc_max.  (With the SOC inside the limits the all-zero plan is feasible,
\* so the pin decides feasibility.)
C27_FeasibleAfterZeroDispatch ==
    (pl_kind \in PlantKinds /\ pl_cmd = <<0>>) =>
        LET measured == get_soc(pl_kind, pl_x, pl_soh)
        IN  /\ SocAtLeast(measured, soc_min(pl_kind))
            /\ SocAtMost(measured, soc_max(pl_kind))

\* soc[1] of the optimizer's recursion soc[t + 1] = soc[t] + (p_ch_dc[t] -
\* p_dis_dc[t]) * dt_h / capacity_mwh for a unit whose measured SOC is soc0 and
\* whose returned step-0 command is p = p_dis_dc * efficiency - p_ch_dc /
\* efficiency with one of the two powers zero, as the fraction num / den.
\* capacity_mwh of an electrochemical unit is nominal_capacity_mwh, which no
\* SOH loss changes; that of a CAES unit is rated_capacity_mwh, from which
\* __init__ derives M_air_max = capacity_mwh * 1000 * eta_air_usage.
PredictedSoc1(kind, soc0, p) ==
    LET eta == efficiency(kind)
        C == IF kind = "ees" THEN EesCapacity(100)
             ELSE (M_air_max * 100) \div CaesAirUsagePct
    IN  IF p < 0
        THEN [num |-> soc0.num * (eta.den * C * PlantDtDen)
                        + (-p) * eta.num * PlantDtNum * soc0.den,
              den |-> soc0.den * eta.den * C * PlantDtDen]
        ELSE [num |-> soc0.num * (eta.num * C * PlantDtDen)
                        - p * eta.den * PlantDtNum * soc0.den,
              den |-> soc0.den * eta.num * C * PlantDtDen]

\* C28: for an electrochemical or CAES unit and a charge or discharge
\* command inside the rated power that neither the available-power limit nor
\* a SOC limit cuts, the SOC of the optimizer's recursion after step 0 is the
\* SOC the unit reports after update_state, at any state of health (up to one
\* grid unit of the stored quantity).
C28_RecursionMatchesPlant ==
    [][(/\ pl_kind \in {"ees", "caes"}
        /\ pl_cmd'[1] # 0
        /\ pl_pelec' = (IF pl_cmd'[1] < 0 THEN -pl_cmd'[1] ELSE pl_cmd'[1])
        /\ LET plant == get_soc(pl_kind, pl_x', pl_soh')
           IN  /\ ~SocAtMost(plant, soc_min(pl_kind))
               /\ ~SocAtLeast(plant, soc_max(pl_kind))) =>
            LET predicted == PredictedSoc1(pl_kind, get_soc(pl_kind, pl_x, pl_soh),
                                           pl_cmd'[1])
                plant == get_soc(pl_kind, pl_x', pl_soh')
                diff == plant.num * predicted.den - predicted.num * plant.den
            IN  /\ diff < predicted.den
                /\ -diff < predicted.den]_vars

\* C30: at the first accepted charge command of an electrochemical unit that
\* follows an accepted discharge command, _update_soh runs exactly once,
\* also when idle steps (zero or fully clamped commands) lie between.
C30_CycleAppliesSohUpdate ==
    [][(/\ pl_kind = "ees"
        /\ pl_cycle_open
        /\ pl_cmd'[1] < 0
        /\ pl_pelec' > 0) => pl_soh_runs' = 1]_vars

\* C25: the efficiency attribute of a storage unit constructed with its
\* default parameters lies in (0, 1].
C25_EfficiencyInUnitInterval ==
    pl_kind \in PlantKinds =>
        /\ 0 < efficiency(pl_kind).num
        /\ efficiency(pl_kind).num <= efficiency(pl_kind).den

(***************************************************************************)
(* Further properties of the optimizer calls (SpecOpt)                     *)
(***************************************************************************)

\* C15: when the mid-band and the high-band task signals are zero at every
\* horizon step, solve_lower_level returns 0 for every smoothing and every
\* power asset, whichever optimal solution the solver returned.
C15_ZeroSignalZeroDispatch ==
    (/\ LowerReturned
     /\ op_sig.mid = Zeros(PH_lower)
     /\ op_sig.high = Zeros(PH_lower))
        => \A u \in smoothing_assets(op_units) \cup power_assets(op_units) :
               u \in DOMAIN res_dispatch /\ res_dispatch[u] = 0

\* grid_exchange.value[0, :] of the stochastic problem: the power balance of
\* scenario 0 solved for the grid exchange
StochasticGrid0(units, plan, rec, sig, scen0) ==
    [t \in 1..PH_upper |->
        sig[t] + scen0[t] - TotalAC(energy_assets(units), plan, t)
                          - TotalAC(smoothing_assets(units), rec, t)]

EnergyKeywords == {<<"p", "h", "s">>, <<"h", "e", "s">>, <<"t", "e", "s">>, <<"c", "a", "e", "s">>}
SmoothingKeywords == {<<"e", "e", "s">>}
PowerKeywords == {<<"f", "w">>, <<"s", "c">>, <<"s", "m", "e", "s">>}

\* keyword in u.id: the keyword occurs as a contiguous substring
KeywordIn(keyword, id) ==
    \E i \in 0..(Len(id) - Len(keyword)) : SubSeq(id, i + 1, i + Len(keyword)) = keyword

\* any(keyword in u.id for keyword in [...])
AnyKeywordIn(keywords, id) == \E keyword \in keywords : KeywordIn(keyword, id)

\* the pieces the ids of the model are built from, and the longest id
IdTokens == {<<"e", "e", "s">>, <<"f", "w">>, <<"p", "h", "s">>, <<"s">>, <<"c">>, <<"b", "a", "t">>}
MaxIdTokens == 2
MaxUnits == 2

RECURSIVE IdsOfTokens(_)
IdsOfTokens(n) ==
    IF n = 0 THEN {<<>>}
    ELSE LET shorter == IdsOfTokens(n - 1)
         IN  shorter \cup {a \o t : a \in shorter, t \in IdTokens}

\* hess.all_units is keyed by id: a registry is a set of distinct ids
UnitIds == IdsOfTokens(MaxIdTokens) \ {<<>>}
RECURSIVE RegistriesUpTo(_)
RegistriesUpTo(n) ==
    IF n = 0 THEN {{}}
    ELSE LET smaller == RegistriesUpTo(n - 1)
         IN  smaller \cup {R \cup {u} : R \in smaller, u \in UnitIds}
IdRegistries == RegistriesUpTo(MaxUnits) \ {{}}

\* the lists __init__ builds (as sets: each unit occurs once in all_units)
GroupsOf(v, ids) ==
    IF v = "linearized"
    THEN [slow_assets |-> {u \in ids : AnyKeywordIn(EnergyKeywords, u)},
          fast_assets |-> {u \in ids : AnyKeywordIn(PowerKeywords \cup SmoothingKeywords, u)}]
    ELSE [energy_assets |-> {u \in ids : AnyKeywordIn(EnergyKeywords, u)},
          smoothing_assets |-> {u \in ids : AnyKeywordIn(SmoothingKeywords, u)},
          power_assets |-> {u \in ids : AnyKeywordIn(PowerKeywords, u)}]

GroupCalls == {[name |-> "__init__", arg |-> [variant |-> v, ids |-> R]] :
                  v \in Variants, R \in IdRegistries}

\* HierarchicalMPCEms(hess, PH_upper, PH_lower)
PfGroups ==
    /\ pf_pc = "called"
    /\ pf_name = "__init__"
    /\ pf_res' = GroupsOf(pf_arg.variant, pf_arg.ids)
    /\ pf_pc' = "returned"
    /\ UNCHANGED <<pf_name, pf_arg>>

PfInitOf(calls) ==
    /\ \E call \in calls : pf_name = call.name /\ pf_arg = call.arg
    /\ pf_pc = "called"
    /\ pf_res = <<>>

GroupsNext ==
    \/ PfGroups /\ UNCHANGED <<fbVars, opVars, loopVars, plantVars, hessVars>>

InitGroups == PfInitOf(GroupCalls) /\ FbInit /\ OpIdle /\ LoopIdle /\ PlantIdle /\ HessInit

SpecGroups == InitGroups /\ [][GroupsNext]_vars

\* the union of a record of sets
RECURSIVE UnionOver(_, _)
UnionOver(groups, names) ==
    IF names = {} THEN {}
    ELSE LET n == CHOOSE x \in names : TRUE
         IN  groups[n] \cup UnionOver(groups, names \ {n})

\* C16: for any registered ids, the groups built by the constructor are
\* pairwise disjoint and their union is the whole registered set.
C16_GroupsPartition ==
    (pf_name = "__init__" /\ pf_pc = "returned") =>
        /\ \A g, h \in DOMAIN pf_res : g # h => pf_res[g] \cap pf_res[h] = {}
        /\ UnionOver(pf_res, DOMAIN pf_res) = pf_arg.ids

\* ---- generate_scenarios(num_samples, num_scenarios, mean, cov_matrix)
MaxSamples == 4
MaxScenarios == 3

\* dims_match: cov_matrix.shape == (len(mean), len(mean))
ScenarioCalls ==
    {[name |-> "generate_scenarios",
      arg |-> [num_samples |-> n, num_scenarios |-> k, dims_match |-> d]] :
        n \in 1..MaxSamples, k \in 1..MaxScenarios, d \in BOOLEAN}

\* kmeans.labels_: KMeans.fit gives every sample one label in
\* range(n_clusters); which one is the library's choice
KMeansLabels(num_samples, num_scenarios) ==
    [1..num_samples -> 0..(num_scenarios - 1)]

\* np.array([np.sum(labels == i) for i in range(num_scenarios)]) / num_samples,
\* each entry as the fraction num / den
probabilitiesFromOne(labels, num_samples, num_scenarios) ==
    [i \in 1..(num_scenarios - 1) |->
        [num |-> Cardinality({j \in DOMAIN labels : labels[j] = i}), den |-> num_samples]]
probabilities(labels, num_samples, num_scenarios) ==
    [i \in 0..(num_scenarios - 1) |->
        [num |-> Cardinality({j \in DOMAIN labels : labels[j] = i}), den |-> num_samples]]

PfGenerateScenarios ==
    /\ pf_pc = "called"
    /\ pf_name = "generate_scenarios"
    /\ LET n == pf_arg.num_samples
           k == pf_arg.num_scenarios
       IN  \* the shape check raises ValueError; KMeans.fit raises ValueError
           \* when n_samples < n_clusters
           IF ~pf_arg.dims_match \/ n < k
           THEN pf_pc' = "raised" /\ pf_res' = <<>>
           ELSE \E labels \in KMeansLabels(n, k) :
                  /\ pf_pc' = "returned"
                  /\ pf_res' = [labels |-> labels,
                                probabilities |-> probabilities(labels, n, k)]
    /\ UNCHANGED <<pf_name, pf_arg>>

ScenariosNext ==
    \/ PfGenerateScenarios /\ UNCHANGED <<fbVars, opVars, loopVars, plantVars, hessVars>>

InitScenarios == PfInitOf(ScenarioCalls) /\ FbInit /\ OpIdle /\ LoopIdle /\ PlantIdle /\ HessInit

SpecScenarios == InitScenarios /\ [][ScenariosNext]_vars

\* the sum of the numerators of a family of fractions
RECURSIVE SumNum(_, _)
SumNum(f, S) ==
    IF S = {} THEN 0
    ELSE LET i == CHOOSE x \in S : TRUE IN f[i].num + SumNum(f, S \ {i})

\* C18: generate_scenarios returns one probability per reduced scenario, each
\* >= 0, the probabilities sum to 1, and each of the num_samples samples is
\* counted in exactly one cluster.
C18_ProbabilitiesSumToOne ==
    (pf_name = "generate_scenarios" /\ pf_pc = "returned") =>
        LET pr == pf_res.probabilities
            clusters == 0..(pf_arg.num_scenarios - 1)
        IN  /\ DOMAIN pr = clusters
            /\ \A i \in clusters : pr[i].num >= 0 /\ pr[i].den = pf_arg.num_samples
            /\ SumNum(pr, clusters) = pf_arg.num_samples
            /\ \A j \in 1..pf_arg.num_samples :
                   Cardinality({i \in clusters : pf_res.labels[j] = i}) = 1

\* a reduction to several scenarios with unequal probabilities, one of them 0
C18_Witness ==
    /\ pf_name = "generate_scenarios"
    /\ pf_pc = "returned"
    /\ pf_arg.num_scenarios >= 2
    /\ \E i, k \in DOMAIN pf_res.probabilities :
           /\ pf_res.probabilities[i].num = 0
           /\ pf_res.probabilities[k].num >= 2

\* ---- decompose_power_signal(power_signal, wavelet, level)
\* A signal is given by its length and by the set of leaf bands (numbered in
\* frequency order) in which it has non-zero coefficients; a band rebuilt
\* from a set of leaves is all-zero exactly when the signal has no non-zero
\* coefficient in them.
MaxSignalLen == 9
MaxLevel == 3

expected_node_count(level) == 2 ^ level

\* the leaf bands a signal may occupy: none, one, or all
SignalSupports(level) ==
    {{}} \cup {{i} : i \in 1..expected_node_count(level)} \cup {1..expected_node_count(level)}

DecomposeCalls ==
    UNION {{[name |-> "decompose_power_signal",
             arg |-> [driver |-> d, original_len |-> n, level |-> l, support |-> e]] :
               d \in Drivers, n \in 1..MaxSignalLen, e \in SignalSupports(l)} :
           l \in 3..MaxLevel}

\* wp.get_level(level, order='freq'): how many nodes come back is the
\* transform's matter; the paths are numbered in frequency order
LeafCounts(level) == 0..(expected_node_count(level) + 1)
node_paths(count) == [i \in 1..count |-> i]

\* node_paths[a:b]
SliceInclusive(paths, a, b) == SubSeq(paths, a + 1, Min2(b + 1, Len(paths)))
Slice(paths, a, b) == SubSeq(paths, a + 1, Min2(b, Len(paths)))

\* reconstruct_from_paths(...)[:original_len]; a packet tree without nodes
\* reconstructs to None, and slicing None raises TypeError
\* content: the leaves whose non-zero coefficients the band is rebuilt from
BandFirstPathOnly(target_paths, original_len, support) ==
    IF target_paths = <<>> THEN [exc |-> "TypeError"]
    ELSE [len |-> original_len,
          paths |-> target_paths,
          content |-> {target_paths[1]} \cap support,
          zero |-> target_paths[1] \notin support]
Band(target_paths, original_len, support) ==
    IF target_paths = <<>> THEN [exc |-> "TypeError"]
    ELSE [len |-> original_len,
          paths |-> target_paths,
          content |-> {target_paths[i] : i \in 1..Len(target_paths)} \cap support,
          zero |-> \A i \in 1..Len(target_paths) : target_paths[i] \notin support]

ZeroBand(original_len) ==
    [len |-> original_len, paths |-> <<>>, content |-> {}, zero |-> TRUE]

\* the check of the node count (main_simulation_stochastic.py only):
\* "zeros", "raise" or "go on"
NodeCountCheck(drv, original_len, level, count) ==
    IF drv = "stoch" /\ count # expected_node_count(level)
    THEN IF original_len < expected_node_count(level) THEN "zeros" ELSE "raise"
    ELSE "go on"

PfDecompose ==
    /\ pf_pc = "called"
    /\ pf_name = "decompose_power_signal"
    /\ \E count \in LeafCounts(pf_arg.level) :
        LET n == pf_arg.original_len
            paths == node_paths(count)
            check == NodeCountCheck(pf_arg.driver, n, pf_arg.level, count)
            low == Band(Slice(paths, 0, 2), n, pf_arg.support)
            mid == Band(Slice(paths, 2, 4), n, pf_arg.support)
            high == Band(Slice(paths, 4, count), n, pf_arg.support)
        IN  CASE check = "zeros" ->
                   /\ pf_pc' = "returned"
                   /\ pf_res' = [leaves |-> count, low |-> ZeroBand(n),
                                 mid |-> ZeroBand(n), high |-> ZeroBand(n)]
              [] check = "raise" ->
                   /\ pf_pc' = "raised"
                   /\ pf_res' = [leaves |-> count, exc |-> "ValueError"]
              [] OTHER ->
                   IF \E b \in {low, mid, high} : "exc" \in DOMAIN b
                   THEN /\ pf_pc' = "raised"
                        /\ pf_res' = [leaves |-> count, exc |-> "TypeError"]
                   ELSE /\ pf_pc' = "returned"
                        /\ pf_res' = [leaves |-> count, low |-> low, mid |-> mid,
                                      high |-> high]
    /\ UNCHANGED <<pf_name, pf_arg>>

DecomposeNext ==
    \/ PfDecompose /\ UNCHANGED <<fbVars, opVars, loopVars, plantVars, hessVars>>

InitDecompose == PfInitOf(DecomposeCalls) /\ FbInit /\ OpIdle /\ LoopIdle /\ PlantIdle /\ HessInit

SpecDecompose == InitDecompose /\ [][DecomposeNext]_vars

\* C19: given a signal shorter than the minimum length of a depth-L
\* decomposition, decompose_power_signal does not raise and returns three
\* all-zero arrays of the input's length.
C19_ShortSignalZeroBands ==
    (/\ pf_name = "decompose_power_signal"
     /\ pf_pc \in {"returned", "raised"}
     /\ pf_arg.original_len < expected_node_count(pf_arg.level)) =>
        /\ pf_pc = "returned"
        /\ \A b \in {"low", "mid", "high"} :
               pf_res[b].zero /\ pf_res[b].len = pf_arg.original_len

\* C20: for an input long enough to decompose, whenever the number of leaf
\* nodes the transform returned differs from 2^level, decompose_power_signal
\* raises and returns no bands.
C20_WrongLeafCountRaises ==
    (/\ pf_name = "decompose_power_signal"
     /\ pf_pc \in {"returned", "raised"}
     /\ pf_arg.original_len >= expected_node_count(pf_arg.level)
     /\ pf_res.leaves # expected_node_count(pf_arg.level))
        => pf_pc = "raised"

\* C21: for a frequency-ordered list of 2^L leaf paths (L >= 3) the low, mid
\* and high groups are three non-empty contiguous runs in increasing
\* frequency order, pairwise disjoint, that together hold every leaf once.
C21_BandsPartitionLeaves ==
    (/\ pf_name = "decompose_power_signal"
     /\ pf_pc = "returned"
     /\ pf_res.leaves = expected_node_count(pf_arg.level)) =>
        /\ pf_res.low.paths # <<>>
        /\ pf_res.mid.paths # <<>>
        /\ pf_res.high.paths # <<>>
        /\ pf_res.low.paths \o pf_res.mid.paths \o pf_res.high.paths
             = node_paths(expected_node_count(pf_arg.level))

\* a decomposition of a long-enough signal with all 2^L leaves returned
C21_Witness ==
    /\ pf_name = "decompose_power_signal"
    /\ pf_pc = "returned"
    /\ pf_res.leaves = expected_node_count(pf_arg.level)
    /\ pf_arg.original_len >= expected_node_count(pf_arg.level)
    /\ Len(pf_res.high.paths) > Len(pf_res.low.paths)

\* C22: for a signal of adequate length decomposed into all 2^L leaves, the
\* three returned bands add up to the input signal sample by sample: each
\* band has the input's length and every non-zero leaf component of the
\* signal is rebuilt in exactly one band.
C22_BandsAddUp ==
    (/\ pf_name = "decompose_power_signal"
     /\ pf_pc \in {"returned", "raised"}
     /\ pf_arg.original_len >= expected_node_count(pf_arg.level)
     /\ pf_res.leaves = expected_node_count(pf_arg.level)) =>
        /\ pf_pc = "returned"
        /\ \A b \in {"low", "mid", "high"} : pf_res[b].len = pf_arg.original_len
        /\ pf_res.low.content \cup pf_res.mid.content \cup pf_res.high.content
             = pf_arg.support
        /\ pf_res.low.content \cap pf_res.mid.content = {}
        /\ pf_res.low.content \cap pf_res.high.content = {}
        /\ pf_res.mid.content \cap pf_res.high.content = {}

\* a long-enough signal with energy in every leaf, split over three bands
C22_Witness ==
    /\ pf_name = "decompose_power_signal"
    /\ pf_pc = "returned"
    /\ pf_arg.original_len > expected_node_count(pf_arg.level)
    /\ pf_arg.support = 1..expected_node_count(pf_arg.level)
    /\ ~pf_res.low.zero /\ ~pf_res.mid.zero /\ ~pf_res.high.zero

-----------------------------------------------------------------------------
(* HybridEnergyStorageSystem: the registry self.all_units is a dict, which  *)
(* keeps its keys in insertion order; it is modelled as the sequence of    *)
(* the registered units.  A unit is its id and a serial number that tells  *)
(* two objects with the same id apart.                                     *)

HessIds == {"fw", "ees", "phs"}

\* how many distinct unit objects may carry one id
MaxSerial == 2

RegisteredIds(units) == {units[i].id : i \in DOMAIN units}

\* add_unit(unit) on the registry units: the registry after the call and
\* what the call raised
add_unitOverwrite(units, unit) ==
    IF unit.id \in RegisteredIds(units)
    THEN [all_units |-> [i \in DOMAIN units |->
                           IF units[i].id = unit.id THEN unit ELSE units[i]],
          exc |-> "none"]
    ELSE [all_units |-> Append(units, unit), exc |-> "none"]
add_unit(units, unit) ==
    IF unit.id \in RegisteredIds(units)
    THEN [all_units |-> units, exc |-> "ValueError"]
    ELSE [all_units |-> Append(units, unit), exc |-> "none"]

\* update_all_states(dispatch_signals): the update_state calls it makes, in
\* order; power_w = dispatch_signals.get(unit_id, 0)
update_all_statesByDispatch(units, dispatch_signals) ==
    LET hit == SelectSeq(units, LAMBDA u : u.id \in DOMAIN dispatch_signals)
    IN  [i \in DOMAIN hit |-> [unit |-> hit[i],
                               power_w |-> dispatch_signals[hit[i].id]]]
update_all_states(units, dispatch_signals) ==
    [i \in DOMAIN units |->
        [unit |-> units[i],
         power_w |-> IF units[i].id \in DOMAIN dispatch_signals
                     THEN dispatch_signals[units[i].id] ELSE 0]]

HsAddUnit ==
    \E unit \in [id : HessIds, serial : 1..MaxSerial] :
        /\ hs_call' = [name |-> "add_unit", unit |-> unit]
        /\ all_units' = add_unit(all_units, unit).all_units
        /\ hs_exc' = add_unit(all_units, unit).exc
        /\ hs_updates' = <<>>

\* the keys of dispatch_signals are any of the ids above and an id no unit
\* carries; the commands are a charge or a discharge power
HsUpdateAllStates ==
    \E keys \in SUBSET (HessIds \cup {"ghost"}) :
      \E dispatch_signals \in [keys -> {-1, 1}] :
        /\ hs_call' = [name |-> "update_all_states",
                       dispatch_signals |-> dispatch_signals]
        /\ hs_updates' = update_all_states(all_units, dispatch_signals)
        /\ hs_exc' = "none"
        /\ UNCHANGED all_units

HessNext ==
    \/ HsAddUnit /\ UNCHANGED <<fbVars, opVars, loopVars, plantVars, pfVars>>
    \/ HsUpdateAllStates /\ UNCHANGED <<fbVars, opVars, loopVars, plantVars, pfVars>>

\* a freshly constructed HybridEnergyStorageSystem
InitHess == HessInit /\ FbInit /\ OpIdle /\ LoopIdle /\ PlantIdle /\ PfIdle

SpecHess == InitHess /\ [][HessNext]_vars

\* C24: after any sequence of add_unit calls, an add_unit whose unit carries
\* an id that is already registered raises ValueError and leaves the
\* registry as it was.
C24_DuplicateIdRejected ==
    [][(/\ hs_call'.name = "add_unit"
        /\ hs_call'.unit.id \in RegisteredIds(all_units)) =>
            /\ hs_exc' = "ValueError"
            /\ all_units' = all_units]_vars

\* a second object with a registered id was offered to a registry of two units
C24_Witness ==
    /\ hs_call # <<>>
    /\ hs_call.name = "add_unit"
    /\ hs_exc = "ValueError"
    /\ Len(all_units) = 2
    /\ \E i \in DOMAIN all_units :
          /\ all_units[i].id = hs_call.unit.id
          /\ all_units[i].serial # hs_call.unit.serial

\* C29: one update_all_states calls update_state exactly once on every
\* registered unit, with that unit's entry of the dispatch mapping or 0 when
\* it has none; entries under ids that are not registered cause no call.
C29_OneUpdatePerUnit ==
    (hs_call # <<>> /\ hs_call.name = "update_all_states") =>
        LET d == hs_call.dispatch_signals
        IN  /\ \A i \in DOMAIN all_units :
                 LET calls == {j \in DOMAIN hs_updates :
                                  hs_updates[j].unit = all_units[i]}
                 IN  /\ Cardinality(calls) = 1
                     /\ \A j \in calls :
                          hs_updates[j].power_w =
                             IF all_units[i].id \in DOMAIN d
                             THEN d[all_units[i].id] ELSE 0
            /\ Len(hs_updates) = Len(all_units)
            /\ hs_exc = "none"

\* a mapping with an unregistered id, a registered one and a missing one
C29_Witness ==
    /\ hs_call # <<>>
    /\ hs_call.name = "update_all_states"
    /\ "ghost" \in DOMAIN hs_call.dispatch_signals
    /\ \E i, j \in DOMAIN all_units :
          /\ all_units[i].id \in DOMAIN hs_call.dispatch_signals
          /\ hs_call.dispatch_signals[all_units[i].id] # 0
          /\ all_units[j].id \notin DOMAIN hs_call.dispatch_signals
          /\ hs_updates[j].power_w = 0

====
